---------------------------- MODULE Spec2Model ----------------------------
(***************************************************************************)
(* A model of the ConPTY proxy of emacs-libvterm: the in-process session   *)
(* of src/conpty.c (SpecInproc) and the standalone proxy of                *)
(* src/conpty-proxy/conpty_proxy.c (SpecProxy: construction and teardown,  *)
(* SpecPump: the completion-port thread, SpecCtrl: its control channel     *)
(* alone, SpecInput: the stdin loop and its ring buffer), and the arena    *)
(* allocators of src/arena.c and src/conpty-proxy/arena.c (SpecArena).     *)
(* Each specification moves only its own variables.                        *)
(***************************************************************************)
EXTENDS Integers, Sequences, FiniteSets, TLC

(***************************************************************************)
(* Bounds of the model.  Buffer capacities are scaled down from the        *)
(* program's (128 KB, 256 KB, 64 KB); the code's comparisons are kept.     *)
(***************************************************************************)
\* widths are 0..MaxWidth and heights 0..MaxHeight (0 is an invalid size)
MaxWidth == 2
MaxHeight == 1
\* scaled sizeof(state->output_buf[0]), src/conpty.h:49
OutBufCap == 1
\* scaled sizeof(state->pending_output), src/conpty.h:52
PendingCap == 2
\* bytes the child produces on the output endpoint in one run
MaxOut == 3
\* longest string handed to Fvterm_conpty_write
MaxWrite == 1
\* closes counted per handle before the count saturates
MaxCloses == 2
\* scaled sizeof(pty->io_buf[0]), src/conpty-proxy/conpty_proxy.c:77
IoBufCap == 2
\* reads that complete on the output endpoint in one run
MaxReads == 2
\* resize requests sent to the control pipe in one run
MaxCtrl == 1
\* scaled sizeof(pty->write_ring_storage), src/conpty-proxy/conpty_proxy.c:84
RingCap == 4
\* scaled sizeof(pty->std_buf), src/conpty-proxy/conpty_proxy.c:79
StdBufCap == 2
\* scaled COALESCE_THRESHOLD of stdio_run, src/conpty-proxy/conpty_proxy.c:430
COALESCE_THRESHOLD == 2
\* bytes the consumer supplies on stdin in one run
MaxIn == 5
\* WriteFile calls of one handler whose outcome is chosen; later ones
\* accept all they are offered
MaxAcc == 2
\* bits of a size_t: sizes are computed modulo 2^WordBits
WordBits == 6
\* calls made on one arena in one run
MaxArenaOps == 4

STILL_ACTIVE == 259

Min(a, b) == IF a < b THEN a ELSE b

\* the bytes numbered a..b of a stream whose k-th byte has the value k
Bytes(a, b) == [i \in 1..(b - a + 1) |-> a + i - 1]

(***************************************************************************)
(* Handles.  A field of a session structure holds NULL,                    *)
(* INVALID_HANDLE_VALUE or the handle of the resource it names ("H"); the  *)
(* resource table records, per resource, whether it is open and how often  *)
(* it was opened and closed.                                               *)
(***************************************************************************)
NoRes == [open |-> FALSE, opens |-> 0, closes |-> 0]

\* a successful Create*/Open*/malloc/InitializeCriticalSection of resource r
Acquire(rs, r) == [rs EXCEPT ![r] = [open |-> TRUE, opens |-> 1, closes |-> @.closes]]

\* CloseHandle/free/Delete* of the handle of resource r
Release(rs, r) ==
  [rs EXCEPT ![r] = [open |-> FALSE, opens |-> @.opens,
                     closes |-> Min(@.closes + 1, MaxCloses)]]

\* the code's test  h && h != INVALID_HANDLE_VALUE
ValidHandle(h) == h # "NULL" /\ h # "INVALID"

VARIABLES
  \* ---- in-process session (src/conpty.c) ----
  term_conpty,   \* term->conpty: "NULL" or "state"
  state,         \* the ConPTYState the session allocated in the term's arena
  ires,          \* resource table of the in-process session
  ipc,           \* position of the Emacs main thread in the module
  pump,          \* position of conpty_output_thread
  child,         \* the shell process: "none", "alive", "exited", "killed"
  hpcSize,       \* the size the pseudo-console was last given by the OS calls
  outRead,       \* bytes the pump has read from the output endpoint so far
  delivered,     \* concatenation of the strings read_pending has returned
  iargs,         \* width and height handed to Fvterm_conpty_init
  lastCall,      \* the last module function that returned, and its result
  ghost          \* history: kills counts the kills since Fvterm_conpty_init was
                 \* called, teardown is whether conpty_cleanup has begun, eof
                 \* whether a read of the pump failed while the session ran

VARIABLES
  \* ---- standalone proxy, construction and teardown (conpty_proxy.c) ----
  g_pty,         \* the handle fields, width and height of the global conpty_t
  pres,          \* resource table of the proxy
  ppc,           \* position of the main thread in conpty_new
  pthr,          \* the iocp_entry thread: "none", "waiting", "exited"
  pargs,         \* what the command line gave: argc, id in use, width, height
  pret,          \* the value conpty_new returns (NoReturn before it returns)
  pfail,         \* the step that made conpty_new stop ("none" while it goes on)
  nullCloses,    \* CloseHandle calls on a field that holds no handle
  plog,          \* the releases of the run and the calls of its teardown, in order
  pclean         \* the step conpty_cleanup is at (0 outside conpty_cleanup)

pvars == <<g_pty, pres, ppc, pthr, pargs, pret, pfail, nullCloses, plog, pclean>>

VARIABLES
  \* ---- standalone proxy, the completion-port thread (iocp_entry) ----
  io_buf_active, \* pty->io_buf_active: the buffer the next read is issued into
  io_buf,        \* pty->io_buf: the bytes each of the two buffers holds
  io_armed,      \* the buffer of the read in flight on io_read, -1 if none
  iocpq,         \* the completion packets queued on pty->iocp
  iocp_thr,      \* iocp_entry: pc, current_buf and bytes_readed
  std_out,       \* the bytes written to pty->std_out
  forwarded,     \* the buffers handed to WriteFile(std_out), in order
  readLens,      \* the lengths of the completed reads, in order
  ctrl,          \* pty->width, pty->height, the control pipe and its client,
                 \* the latest accept cycle, ctrl_pipe and hpc being open
  iocp_open      \* the completion port has not been closed

uvars == <<io_buf_active, io_buf, io_armed, iocpq, iocp_thr, std_out, forwarded,
           readLens, ctrl, iocp_open>>

VARIABLES
  \* ---- standalone proxy, the stdin loop (stdio_run) and its ring buffer ----
  write_ring,         \* pty->write_ring: read_pos and write_pos
  write_ring_storage, \* pty->write_ring_storage: the byte each cell holds
  supplied,           \* the bytes read from stdin so far (byte k has value k)
  io_write_out,       \* the bytes the input endpoint pty->io_write accepted
  lastFlush,          \* the latest flush_ring_buffer call: the positions it
                      \* started from and the WriteFile calls it made
  lost,               \* bytes read from stdin that were never stored
  stdio_pc,           \* "running", or "returned" once stdio_run returned -1
  wake                \* the latest return of WaitForMultipleObjects: what was
                      \* signalled, the bytes the ring held when the handler
                      \* decided whether to flush, and whether it flushed

nvars == <<write_ring, write_ring_storage, supplied, io_write_out, lastFlush, lost,
           stdio_pc, wake>>

ivars == <<term_conpty, state, ires, ipc, pump, child, hpcSize,
           outRead, delivered, iargs, lastCall, ghost>>

VARIABLES
  \* ---- the arena allocator (arena.c) ----
  allocator,     \* the arena_allocator_t and its chain of blocks, current first
  aret,          \* the latest call on the arena, the pointer it returned, the
                 \* calls made so far
  ahist,         \* the regions returned since the allocator was made or reset,
                 \* the blocks made since then, whether the latest call was
                 \* refused memory
  vm             \* the memory had from vm_alloc / VirtualAlloc: how many
                 \* allocators were made, how many blocks the latest one was
                 \* given, and the regions given back, in order

avars == <<allocator, aret, ahist, vm>>

VARIABLES
  \* ---- the ring buffer with its producer and its consumer on two threads ----
  spsc_ring,     \* the ring_buffer_t: read_pos and write_pos
  spsc_storage,  \* the byte each cell of its buffer holds
  producer,      \* the thread in ring_buffer_write: where it is, the data it
                 \* was given, the read_pos it loaded
  consumer,      \* the thread in flush_ring_buffer: where it is, the
                 \* write_pos it loaded, the bytes its WriteFile accepted
  spsc_made,     \* the bytes ring_buffer_write stored so far (byte k has value k)
  spsc_out       \* the bytes the consumer's WriteFile calls accepted

rvars == <<spsc_ring, spsc_storage, producer, consumer, spsc_made, spsc_out>>

vars == <<ivars, pvars, uvars, nvars, avars, rvars>>

(***************************************************************************)
(*                  The in-process session, src/conpty.c                   *)
(***************************************************************************)
IResources ==
  {"shell_cmd", "pending_lock", "notify_fd", "in_read", "in_write", "out_read",
   "out_write", "hpc", "attr_list", "wshell", "shell_process", "hThread",
   "iocp_thread"}

\* memset(state, 0, sizeof(ConPTYState))
ZeroState ==
  [hpc |-> "NULL", pty_input |-> "NULL", pty_output |-> "NULL",
   shell_process |-> "NULL", iocp |-> "NULL", iocp_thread |-> "NULL",
   notify_fd |-> 0, output_buf |-> [b \in 0..1 |-> <<>>],
   pending_output |-> <<>>, running |-> 0]

\* results handed back to Lisp
Qnil == [tag |-> "nil", n |-> 0]
Qt == [tag |-> "t", n |-> 0]
MakeInteger(k) == [tag |-> "int", n |-> k]
\* a string of n bytes (its bytes are appended to `delivered`)
MakeString(n) == [tag |-> "str", n |-> n]

NoCall ==
  [op |-> "none", ret |-> Qnil, ended |-> "no", closed |-> {}, changed |-> FALSE,
   osResize |-> FALSE, sameSize |-> FALSE, touched |-> {}]

\* the record of a call that returned r: whether the session had ended when
\* it was made (by a kill, or by the exit of the child)
Called(op, r) ==
  [NoCall EXCEPT !.op = op, !.ret = r,
                 !.ended = IF ghost.kills > 0 THEN "kill"
                           ELSE IF child = "exited" THEN "exit" ELSE "no"]

(***************************************************************************)
(* conpty_cleanup.  It sets running to 0 and calls CancelIo, which cancels *)
(* only reads issued by the calling thread (the pump's blocking ReadFile   *)
(* is not among them); it waits for the pump thread when there is one, and *)
(* then closes what the state names.                                       *)
(***************************************************************************)
CleanupSignal(st) == [st EXCEPT !.running = 0]

\* the fields conpty_cleanup finds valid, by the resource each one names
CleanupTargets(st) ==
  (IF ValidHandle(st.iocp_thread) THEN {"iocp_thread"} ELSE {}) \cup
  (IF ValidHandle(st.shell_process) THEN {"shell_process"} ELSE {}) \cup
  (IF ValidHandle(st.pty_input) THEN {"in_write"} ELSE {}) \cup
  (IF ValidHandle(st.pty_output) THEN {"out_read"} ELSE {}) \cup
  (IF st.hpc # "NULL" THEN {"hpc"} ELSE {}) \cup
  {"pending_lock"}

CleanupFields(st) ==
  [st EXCEPT !.running = 0, !.iocp_thread = "NULL", !.iocp = "NULL",
             !.shell_process = "NULL", !.pty_input = "NULL",
             !.pty_output = "NULL", !.hpc = "NULL"]

CleanupRelease(st, rs) ==
  [r \in IResources |-> IF r \in CleanupTargets(st) THEN Release(rs, r)[r] ELSE rs[r]]

\* TerminateProcess(state->shell_process, 0)
CleanupChild(st, c) ==
  IF ValidHandle(st.shell_process) /\ c = "alive" THEN "killed" ELSE c


AcquireAll(rs, S) == [r \in IResources |-> IF r \in S THEN Acquire(rs, r)[r] ELSE rs[r]]
ReleaseAll(rs, S) == [r \in IResources |-> IF r \in S THEN Release(rs, r)[r] ELSE rs[r]]

\* conpty_cleanup without its last statement
CleanupConptyKept == "state"

\* term->conpty after conpty_cleanup's last statement
CleanupConpty == "NULL"

(***************************************************************************)
(* Fvterm_conpty_init, one action per call that can fail.                  *)
(***************************************************************************)
\* the next step of Fvterm_conpty_init is reached with state st, resources rs
InitGoto(pcNext, st, rs) ==
  /\ ipc' = pcNext
  /\ state' = st
  /\ ires' = rs
  /\ UNCHANGED <<pump, outRead, delivered, iargs, lastCall, ghost>>

\* Fvterm_conpty_init returns nil, leaving term->conpty = conpty
InitFail(conpty, st, rs) ==
  /\ ipc' = "idle"
  /\ iargs' = [w |-> 0, h |-> 0]
  /\ lastCall' = Called("init", Qnil)
  /\ term_conpty' = conpty
  /\ state' = st
  /\ ires' = rs
  /\ UNCHANGED <<pump, hpcSize, outRead, delivered>>

\* a failure path that releases `freed` by hand and sets term->conpty = NULL
InitFailByHand(freed) ==
  /\ InitFail("NULL", state, ReleaseAll(ires, freed))
  /\ UNCHANGED <<child, ghost>>

\* a failure path that calls conpty_cleanup (no pump thread exists yet, so
\* nothing is waited for) and releases `freed` by hand
InitFailCleanup(rs, freed) ==
  /\ InitFail(CleanupConpty, CleanupFields(state),
              ReleaseAll(CleanupRelease(state, rs), freed))
  /\ child' = CleanupChild(state, child)
  /\ ghost' = [ghost EXCEPT !.teardown = TRUE]

\* Fvterm_conpty_init is entered with the term and a width and height
InitCall(w, h) ==
  /\ ipc = "idle" /\ ~ghost.inited
  /\ ipc' = "i_api"
  /\ iargs' = [w |-> w, h |-> h]
  /\ ghost' = [ghost EXCEPT !.inited = TRUE, !.kills = 0]
  /\ UNCHANGED <<term_conpty, state, ires, pump, child, hpcSize, outRead,
                 delivered, lastCall>>

\* conpty_api_init(), then malloc(shell_len)
InitApi(apiOk, mallocOk) ==
  /\ ipc = "i_api"
  /\ IF apiOk /\ mallocOk
       THEN InitGoto("i_dims", state, Acquire(ires, "shell_cmd"))
              /\ UNCHANGED <<term_conpty, child, hpcSize>>
       ELSE InitFail(term_conpty, state, ires) /\ UNCHANGED <<child, ghost>>

\* the size check, then arena_alloc of the ConPTYState,
\* InitializeCriticalSection, running = 1, notify_fd = -1
InitState(allocOk) ==
  /\ ipc = "i_dims"
  /\ IF iargs.w <= 0 \/ iargs.h <= 0 \/ ~allocOk
       THEN InitFail(term_conpty, state, Release(ires, "shell_cmd"))
              /\ UNCHANGED <<child, ghost>>
       ELSE InitGoto("i_channel", [ZeroState EXCEPT !.running = 1, !.notify_fd = -1],
                     Acquire(ires, "pending_lock"))
              /\ term_conpty' = "state"
              /\ UNCHANGED <<child, hpcSize>>

\* env->open_channel: a new descriptor (3) or a negative value
InitChannel(fd) ==
  /\ ipc = "i_channel"
  /\ IF fd < 0
       THEN InitFail("NULL", [state EXCEPT !.notify_fd = fd],
                     ReleaseAll(ires, {"pending_lock", "shell_cmd"}))
              /\ UNCHANGED <<child, ghost>>
       ELSE InitGoto("i_pipes", [state EXCEPT !.notify_fd = fd],
                     Acquire(ires, "notify_fd"))
              /\ UNCHANGED <<term_conpty, child, hpcSize>>

\* the two CreatePipe calls: both succeed, the first fails, or the second fails
InitPipes(outcome) ==
  /\ ipc = "i_pipes"
  /\ CASE outcome = "ok" ->
            InitGoto("i_hpc", state,
                     AcquireAll(ires, {"in_read", "in_write", "out_read", "out_write"}))
              /\ UNCHANGED <<term_conpty, child, hpcSize>>
       [] outcome = "first" ->
            InitFailByHand({"pending_lock", "shell_cmd"})
       [] outcome = "second" ->
            InitFail("NULL", state,
                     ReleaseAll(AcquireAll(ires, {"in_read", "in_write"}),
                                {"in_read", "in_write", "pending_lock", "shell_cmd"}))
              /\ UNCHANGED <<child, ghost>>

\* g_CreatePseudoConsole, then CloseHandle(in_read), CloseHandle(out_write)
InitHpc(ok) ==
  /\ ipc = "i_hpc"
  /\ IF ok
       THEN InitGoto("i_attr",
                     [state EXCEPT !.hpc = "H", !.pty_input = "H", !.pty_output = "H"],
                     ReleaseAll(Acquire(ires, "hpc"), {"in_read", "out_write"}))
              /\ hpcSize' = <<iargs.w, iargs.h>>
              /\ UNCHANGED <<term_conpty, child>>
       ELSE InitFailByHand({"in_read", "out_write", "in_write", "out_read",
                            "pending_lock", "shell_cmd"})

\* malloc of the attribute list, InitializeProcThreadAttributeList and
\* UpdateProcThreadAttribute, then malloc of the wide command string
InitAttr(outcome) ==
  /\ ipc = "i_attr"
  /\ CASE outcome = "ok" ->
            InitGoto("i_spawn", state,
                     Release(AcquireAll(ires, {"attr_list", "wshell"}), "shell_cmd"))
              /\ UNCHANGED <<term_conpty, child, hpcSize>>
       [] outcome = "malloc" ->
            InitFailCleanup(ires, {"shell_cmd"})
       [] outcome \in {"attr", "wshell"} ->
            InitFailCleanup(Acquire(ires, "attr_list"), {"attr_list", "shell_cmd"})

\* CreateProcessW, then free(wshell) and the release of the attribute list
InitSpawn(created) ==
  /\ ipc = "i_spawn"
  /\ IF created
       THEN InitGoto("i_thread", [state EXCEPT !.shell_process = "H", !.iocp = "NULL"],
                     ReleaseAll(AcquireAll(ires, {"shell_process", "hThread"}),
                                {"wshell", "attr_list", "hThread"}))
              /\ child' = "alive"
              /\ UNCHANGED <<term_conpty, hpcSize>>
       ELSE InitFailCleanup(ires, {"wshell", "attr_list"})

\* CreateThread(conpty_output_thread)
InitThread(started) ==
  /\ ipc = "i_thread"
  /\ IF started
       THEN /\ ires' = Acquire(ires, "iocp_thread")
            /\ state' = [state EXCEPT !.iocp_thread = "H"]
            /\ pump' = [pump EXCEPT !.pc = "start"]
            /\ ipc' = "idle"
            /\ iargs' = [w |-> 0, h |-> 0]
            /\ lastCall' = Called("init", Qt)
            /\ UNCHANGED <<term_conpty, child, hpcSize, outRead, delivered, ghost>>
       ELSE InitFailCleanup(ires, {})

(***************************************************************************)
(* The module functions Lisp calls once a term exists.  Lisp runs them on  *)
(* the Emacs main thread, one at a time.                                   *)
(***************************************************************************)
Bump(k) == Min(k + 1, 2)

\* the resources among S that are no longer (or not yet) open
NotOpen(S) == {r \in S : ~ires[r].open}

\* Fvterm_conpty_kill: conpty_cleanup up to the wait for the pump thread
KillCall ==
  /\ ipc = "idle"
  /\ IF term_conpty = "NULL"
       THEN /\ lastCall' = Called("kill", Qt)
            /\ ghost' = [ghost EXCEPT !.kills = Bump(@)]
            /\ UNCHANGED <<ipc, state, ires, child, term_conpty>>
       ELSE IF ValidHandle(state.iocp_thread)
         THEN /\ state' = CleanupSignal(state)
              /\ ipc' = "k_wait"
              /\ ghost' = [ghost EXCEPT !.teardown = TRUE]
              /\ UNCHANGED <<lastCall, ires, child, term_conpty>>
         ELSE /\ state' = CleanupFields(state)
              /\ ires' = CleanupRelease(state, ires)
              /\ child' = CleanupChild(state, child)
              /\ term_conpty' = CleanupConpty
              /\ lastCall' = [Called("kill", Qt) EXCEPT
                                !.closed = CleanupTargets(state), !.changed = TRUE]
              /\ ghost' = [ghost EXCEPT !.teardown = TRUE, !.kills = Bump(@)]
              /\ UNCHANGED ipc
  /\ UNCHANGED <<pump, hpcSize, outRead, delivered, iargs>>

\* WaitForSingleObject(iocp_thread, 2000) returns, because the pump thread
\* ended or because the two seconds passed; the rest of conpty_cleanup
KillJoin(timedOut) ==
  /\ ipc = "k_wait"
  /\ timedOut \/ pump.pc \in {"exited", "crashed"}
  /\ state' = CleanupFields(state)
  /\ ires' = CleanupRelease(state, ires)
  /\ child' = CleanupChild(state, child)
  /\ term_conpty' = CleanupConpty
  /\ ipc' = "idle"
  /\ lastCall' = [Called("kill", Qt) EXCEPT
                    !.closed = CleanupTargets(state), !.changed = TRUE]
  /\ ghost' = [ghost EXCEPT !.kills = Bump(@)]
  /\ UNCHANGED <<pump, hpcSize, outRead, delivered, iargs>>

\* Fvterm_conpty_read_pending
ReadPending ==
  /\ ipc = "idle"
  /\ IF term_conpty = "NULL"
       THEN /\ lastCall' = Called("read", Qnil)
            /\ UNCHANGED <<state, delivered>>
       ELSE /\ lastCall' = [Called("read",
                                   IF Len(state.pending_output) > 0
                                     THEN MakeString(Len(state.pending_output))
                                     ELSE Qnil)
                              EXCEPT !.touched = NotOpen({"pending_lock"})]
            /\ state' = [state EXCEPT !.pending_output = <<>>]
            /\ delivered' = delivered \o state.pending_output
  /\ UNCHANGED <<term_conpty, ires, ipc, pump, child, hpcSize,
                 outRead, iargs, ghost>>

\* Fvterm_conpty_write of a string of n bytes, of which WriteFile takes k
WriteInput(n, mallocOk, k) ==
  /\ ipc = "idle"
  /\ k <= n /\ (~mallocOk => k = 0)
  /\ lastCall' =
       IF term_conpty = "NULL" THEN Called("write", Qnil)
       ELSE IF n + 1 <= 1 THEN Called("write", MakeInteger(0))
       ELSE IF ~mallocOk THEN Called("write", Qnil)
       ELSE [Called("write", MakeInteger(Min(k, n))) EXCEPT
               !.touched = NotOpen({"in_write"})]
  /\ UNCHANGED <<term_conpty, state, ires, ipc, pump, child, hpcSize,
                 outRead, delivered, iargs, ghost>>

\* Fvterm_conpty_resize to (w, h); hrOk is what g_ResizePseudoConsole reports
ResizeCall(w, h, hrOk) ==
  /\ ipc = "idle"
  /\ (w <= 0 \/ h <= 0) => hrOk
  /\ IF term_conpty = "NULL" \/ state.hpc = "NULL" \/ w <= 0 \/ h <= 0
       THEN /\ lastCall' = Called("resize", Qnil)
            /\ UNCHANGED hpcSize
       ELSE /\ lastCall' = [Called("resize", IF hrOk THEN Qt ELSE Qnil) EXCEPT
                              !.osResize = TRUE,
                              !.sameSize = (<<w, h>> = hpcSize),
                              !.touched = NotOpen({"hpc"})]
            /\ hpcSize' = IF hrOk THEN <<w, h>> ELSE hpcSize
  /\ UNCHANGED <<term_conpty, state, ires, ipc, pump, child,
                 outRead, delivered, iargs, ghost>>

\* what GetExitCodeProcess stores for the child
ExitCodeOf(c, code) == IF c = "alive" THEN STILL_ACTIVE ELSE code

\* Fvterm_conpty_is_alive; gotCode is whether GetExitCodeProcess succeeds and
\* exitCode the code an exited child left
IsAlive(gotCode, exitCode) ==
  /\ ipc = "idle"
  /\ (~gotCode \/ child # "exited") => exitCode = 0
  /\ lastCall' =
       IF term_conpty = "NULL" \/ state.shell_process = "NULL"
         THEN Called("alive", Qnil)
         ELSE [Called("alive",
                      IF gotCode /\ ExitCodeOf(child, exitCode) = STILL_ACTIVE
                        THEN Qt ELSE Qnil)
                 EXCEPT !.touched = NotOpen({"shell_process"})]
  /\ UNCHANGED <<term_conpty, state, ires, ipc, pump, child, hpcSize,
                 outRead, delivered, iargs, ghost>>

\* the shell exits by itself
ChildExit ==
  /\ child = "alive"
  /\ child' = "exited"
  /\ UNCHANGED <<term_conpty, state, ires, ipc, pump, hpcSize, outRead,
                 delivered, iargs, lastCall, ghost>>

(***************************************************************************)
(* conpty_output_thread: the pump of the in-process session.               *)
(***************************************************************************)
\* the thread's first statements: state = term->conpty
PumpStart ==
  /\ pump.pc = "start"
  /\ pump' = [pump EXCEPT !.pc = IF term_conpty = "NULL" THEN "crashed" ELSE "loop"]
  /\ UNCHANGED <<term_conpty, state, ires, ipc, child, hpcSize,
                 outRead, delivered, iargs, lastCall, ghost>>

\* the loop test on state->running, and the entry into the blocking ReadFile
PumpLoop ==
  /\ pump.pc = "loop"
  /\ IF state.running = 1
       THEN /\ pump' = [pump EXCEPT !.pc = "reading"]
            /\ ghost' = [ghost EXCEPT !.pumpTouched = @ \cup NotOpen({"out_read"})]
       ELSE /\ pump' = [pump EXCEPT !.pc = "exited"]
            /\ UNCHANGED ghost
  /\ UNCHANGED <<term_conpty, state, ires, ipc, child, hpcSize,
                 outRead, delivered, iargs, lastCall>>

\* ReadFile returns n bytes (n = 0: it failed, or it read nothing)
PumpRead(n) ==
  /\ pump.pc = "reading"
  /\ IF n > 0
       THEN /\ ires["out_read"].open /\ outRead + n <= MaxOut
            /\ state' = [state EXCEPT
                           !.output_buf[pump.cur] = Bytes(outRead + 1, outRead + n)]
            /\ outRead' = outRead + n
            /\ pump' = [pump EXCEPT !.pc = "append", !.n = n]
            /\ UNCHANGED ghost
       ELSE /\ pump' = [pump EXCEPT !.pc = "exited", !.n = 0]
            /\ ghost' = [ghost EXCEPT
                           !.eof = @ \/ (term_conpty = "state" /\ state.running = 1)]
            /\ UNCHANGED <<state, outRead>>
  /\ UNCHANGED <<term_conpty, ires, ipc, child, hpcSize, delivered,
                 iargs, lastCall>>

\* the bytes of a read of n bytes that fit the pending region
ToCopy(n, len) == Min(n, PendingCap - len)

\* the critical section that appends to pending_output
PumpAppend ==
  /\ pump.pc = "append"
  /\ state' = [state EXCEPT
                 !.pending_output =
                    @ \o SubSeq(state.output_buf[pump.cur], 1,
                                ToCopy(pump.n, Len(state.pending_output)))]
  /\ pump' = [pump EXCEPT !.pc = "notify"]
  /\ ghost' = [ghost EXCEPT
                 !.pumpTouched = @ \cup NotOpen({"pending_lock"}),
                 !.notified = @ /\ ToCopy(pump.n, Len(state.pending_output)) = 0]
  /\ UNCHANGED <<term_conpty, ires, ipc, child, hpcSize, outRead,
                 delivered, iargs, lastCall>>

\* a pump that writes to notify_fd when there is no channel only
NotifyWithoutChannel(fd) == fd < 0

\* if (state->notify_fd >= 0)
NotifyWanted(fd) == fd >= 0

\* the buffer toggle and the write to notify_fd
PumpNotify ==
  /\ pump.pc = "notify"
  /\ pump' = [pump EXCEPT !.pc = "loop", !.cur = 1 - pump.cur]
  /\ ghost' = [ghost EXCEPT !.notified = @ \/ NotifyWanted(state.notify_fd)]
  /\ UNCHANGED <<term_conpty, state, ires, ipc, child, hpcSize, outRead,
                 delivered, iargs, lastCall>>

\* the session before Fvterm_conpty_init was called
InprocIdle ==
  /\ term_conpty = "NULL"
  /\ state = ZeroState
  /\ ires = [r \in IResources |-> NoRes]
  /\ ipc = "idle"
  /\ pump = [pc |-> "none", n |-> 0, cur |-> 0]
  /\ child = "none"
  /\ hpcSize = <<0, 0>>
  /\ outRead = 0
  /\ delivered = <<>>
  /\ iargs = [w |-> 0, h |-> 0]
  /\ lastCall = NoCall
  /\ ghost = [inited |-> FALSE, kills |-> 0, teardown |-> FALSE, eof |-> FALSE,
              pumpTouched |-> {}, notified |-> FALSE]

(***************************************************************************)
(*                 Properties of the in-process session                    *)
(***************************************************************************)
\* the handles, the pseudo-console and the lock that conpty_cleanup releases
KillReleases ==
  {"iocp_thread", "shell_process", "in_write", "out_read", "hpc", "pending_lock"}

\* C1 (as claimed): when Fvterm_conpty_init has returned nil, nothing the
\* call acquired is still open.
C1_FailedCreateLeavesNothingOpen ==
  (lastCall.op = "init" /\ lastCall.ret = Qnil) =>
     \A r \in IResources : ~ires[r].open

\* C3: conpty_cleanup releases each handle, the pseudo-console and the lock
\* exactly once, and a kill called after a kill releases nothing, changes
\* nothing and returns t.
C3_KillIdempotent ==
  /\ \A r \in KillReleases : ires[r].closes <= 1
  /\ (ghost.kills >= 1 /\ ipc = "idle") =>
        \A r \in KillReleases : ires[r].opens = 1 => (~ires[r].open /\ ires[r].closes = 1)
  /\ (lastCall.op = "kill" /\ ghost.kills = 2) =>
        (lastCall.closed = {} /\ ~lastCall.changed /\ lastCall.ret = Qt)

\* a session that was constructed, killed, and killed again
C3_Witness ==
  /\ lastCall.op = "kill" /\ ghost.kills = 2
  /\ \A r \in KillReleases : ires[r].closes = 1

SessionCalls == {"write", "read", "resize", "alive"}

C5_FailedReadLeadsToTeardown == ghost.eof ~> ghost.teardown

\* the bytes of a completed read that the pump has not appended yet
InFlight == IF pump.pc = "append" THEN state.output_buf[pump.cur] ELSE <<>>

\* C7 (as claimed): what read_pending has returned, then what is pending,
\* then the read being appended, is the stream the pump has read.
C7_DeliveredIsReadStream ==
  delivered \o state.pending_output \o InFlight = Bytes(1, outRead)

\* C10 (as claimed): a resize to the size the pseudo-console has makes no OS
\* call and returns success.
C10_SameSizeMakesNoOsCall ==
  (lastCall.op = "resize" /\ lastCall.sameSize) =>
     (~lastCall.osResize /\ lastCall.ret = Qt)

(***************************************************************************)
(*   The standalone proxy: conpty_new, conpty_init, conpty_spawn and       *)
(*   conpty_cleanup of src/conpty-proxy/conpty_proxy.c                     *)
(***************************************************************************)
ERROR_INVALID_ARGC == 1
ERROR_ID_DUP == 2
ERROR_CREATE_CTRL_PIPE_FAILED == 3
ERROR_CONPTY_API_INIT_FAILED == 4
ERROR_INVALID_SIZE == 5
ERROR_CREATE_IN_PIPE_FAILED == 6
ERROR_CREATE_OUT_PIPE_FAILED == 7
ERROR_CREATE_PSEUDO_CONSOLE_FAILED == 8
ERROR_OPEN_IN_PIPE_FAILED == 9
ERROR_OPEN_OUT_PIPE_FAILED == 10
ERROR_MALLOC_PROC_ATTR_FAILED == 11
ERROR_INIT_PROC_ATTR_FAILED == 12
ERROR_UPDATE_PROC_ATTR_FAILED == 13
ERROR_CREATE_PROC_FAILED == 14
ERROR_CREATE_MAIN_IOCP_FAILED == 15
ERROR_CREATE_IO_READ_IOCP_FAILED == 17
ERROR_CREATE_CTRL_READ_IOCP_FAILED == 18
\* conpty_new before it has returned
NoReturn == 0 - 99

PResources ==
  {"arena", "probe", "ctrl_pipe", "iocp", "in_read", "out_write", "hpc",
   "io_read", "io_write", "attr_list", "process", "hThread", "iocp_thread",
   "flush_event", "flush_timer"}

\* memset(&g_pty, 0, sizeof(g_pty))
ZeroPty ==
  [arena |-> "NULL", ctrl_pipe |-> "NULL", iocp |-> "NULL", iocp_thread |-> "NULL",
   hpc |-> "NULL", io_read |-> "NULL", io_write |-> "NULL", process |-> "NULL",
   lpAttributeList |-> "NULL", flush_event |-> "NULL", flush_timer |-> "NULL",
   width |-> 0, height |-> 0]

\* the resource a field's handle belongs to
ResourceOf(f) ==
  CASE f = "lpAttributeList" -> "attr_list"
    [] OTHER -> f

\* a conpty_cleanup that took a timed-out join for an error and left the
\* thread handle of a thread still running alone
CleanupTestAfterJoin(f, v) ==
  IF f \in {"hpc", "lpAttributeList", "arena"} THEN v # "NULL"
  ELSE ValidHandle(v) /\ (f = "iocp_thread" => pthr = "exited")

\* the test conpty_cleanup makes before it releases field f
CleanupTest(f, v) ==
  IF f \in {"hpc", "lpAttributeList", "arena"} THEN v # "NULL" ELSE ValidHandle(v)

\* the fields in the order conpty_cleanup goes through them
CleanupOrder ==
  <<"flush_timer", "iocp_thread", "iocp", "process", "io_read", "io_write",
    "ctrl_pipe", "hpc", "lpAttributeList", "flush_event", "arena">>

\* conpty_new goes on to its next step
NewGoto(pcNext, pty, rs) ==
  /\ ppc' = pcNext
  /\ g_pty' = pty
  /\ pres' = rs
  /\ UNCHANGED <<pthr, pargs, pret, pfail, nullCloses, plog, pclean>>

\* a conpty_new that tries CreateNamedPipeW again when it failed
NewFailRetries(step, code, pty, rs, log, nulls) ==
  /\ ppc' = IF step = "ctrl_pipe" THEN "n_dup" ELSE "cleanup"
  /\ pclean' = IF step = "ctrl_pipe" THEN 0 ELSE 1
  /\ pret' = code
  /\ pfail' = step
  /\ g_pty' = pty
  /\ pres' = rs
  /\ plog' = log
  /\ nullCloses' = nulls
  /\ UNCHANGED <<pthr, pargs>>

\* conpty_new calls conpty_cleanup and will return code, for the failure
\* of step
NewFail(step, code, pty, rs, log, nulls) ==
  /\ ppc' = "cleanup"
  /\ pclean' = 1
  /\ pret' = code
  /\ pfail' = step
  /\ g_pty' = pty
  /\ pres' = rs
  /\ plog' = log
  /\ nullCloses' = nulls
  /\ UNCHANGED <<pthr, pargs>>

\* conpty_new("new", id, width, height, cmd): the argument count, memset,
\* arena_create
NewStart(argcOk, idInUse, w, h, arenaOk) ==
  /\ ppc = "start"
  /\ pargs' = [argcOk |-> argcOk, idInUse |-> idInUse /\ argcOk /\ arenaOk,
               w |-> IF argcOk /\ arenaOk THEN w ELSE 0,
               h |-> IF argcOk /\ arenaOk THEN h ELSE 0]
  /\ IF ~argcOk
       THEN /\ ppc' = "returned" /\ pret' = ERROR_INVALID_ARGC
            /\ pfail' = "argc"
            /\ UNCHANGED <<g_pty, pres>>
       ELSE IF ~arenaOk
         THEN /\ ppc' = "returned" /\ pret' = ERROR_MALLOC_PROC_ATTR_FAILED
              /\ pfail' = "arena"
              /\ g_pty' = ZeroPty
              /\ UNCHANGED pres
         ELSE /\ ppc' = "n_dup" /\ UNCHANGED <<pret, pfail>>
              /\ g_pty' = [ZeroPty EXCEPT !.arena = "H"]
              /\ pres' = Acquire(pres, "arena")
  /\ UNCHANGED <<pthr, nullCloses, plog, pclean>>

\* the probe for a control pipe of the same id, then CreateNamedPipeW of
\* the control pipe
NewCtrlPipe(created) ==
  /\ ppc = "n_dup"
  /\ IF pargs.idInUse
       THEN NewFail("dup_id", ERROR_ID_DUP, g_pty, Release(Acquire(pres, "probe"), "probe"),
                    Append(plog, "probe"), nullCloses)
       ELSE IF ~created
         THEN NewFail("ctrl_pipe", ERROR_CREATE_CTRL_PIPE_FAILED,
                      [g_pty EXCEPT !.ctrl_pipe = "INVALID"], pres, plog, nullCloses)
         ELSE NewGoto("n_api", [g_pty EXCEPT !.ctrl_pipe = "H"],
                      Acquire(pres, "ctrl_pipe"))

\* conpty_api_init, then CreateIoCompletionPort, then the size check
NewIocp(apiOk, iocpOk) ==
  /\ ppc = "n_api"
  /\ IF ~apiOk
       THEN NewFail("api_init", ERROR_CONPTY_API_INIT_FAILED, g_pty, pres, plog, nullCloses)
       ELSE IF ~iocpOk
         THEN NewFail("main_iocp", ERROR_CREATE_MAIN_IOCP_FAILED, g_pty, pres, plog, nullCloses)
         ELSE IF pargs.w <= 0 \/ pargs.h <= 0
           THEN NewFail("size", ERROR_INVALID_SIZE, [g_pty EXCEPT !.iocp = "H"],
                        Acquire(pres, "iocp"), plog, nullCloses)
           ELSE NewGoto("n_init",
                        [g_pty EXCEPT !.iocp = "H", !.width = pargs.w,
                                      !.height = pargs.h],
                        Acquire(pres, "iocp"))

\* CloseHandle(v) of the error path of conpty_init, where v is the value
\* of field f: the path tests v against INVALID_HANDLE_VALUE only
ErrClose(acc, f, v) ==
  IF v = "INVALID" THEN acc
  ELSE IF v = "NULL" THEN [acc EXCEPT !.nulls = Min(@ + 1, MaxCloses)]
  ELSE [acc EXCEPT !.rs = Release(@, f), !.log = Append(@, f)]

\* the handles conpty_init has acquired when it stops at `outcome`
InitAcquired(outcome) ==
  CASE outcome = "in_pipe" -> {}
    [] outcome = "out_pipe" -> {"in_read"}
    [] outcome = "hpc" -> {"in_read", "out_write"}
    [] outcome = "open_read" -> {"in_read", "out_write", "hpc"}
    [] outcome = "open_write" -> {"in_read", "out_write", "hpc", "io_read"}
    [] OTHER -> {"in_read", "out_write", "hpc", "io_read", "io_write"}

InitErrCode(outcome) ==
  CASE outcome = "in_pipe" -> ERROR_CREATE_IN_PIPE_FAILED
    [] outcome = "out_pipe" -> ERROR_CREATE_OUT_PIPE_FAILED
    [] outcome = "hpc" -> ERROR_CREATE_PSEUDO_CONSOLE_FAILED
    [] outcome = "open_read" -> ERROR_OPEN_IN_PIPE_FAILED
    [] outcome = "open_write" -> ERROR_OPEN_OUT_PIPE_FAILED
    [] OTHER -> 0

\* conpty_init(pty): the two server pipes, the pseudoconsole, the two
\* client ends; on success the server ends are closed, on failure the
\* err: path runs
conpty_init(pty, rs, log, nulls, outcome) ==
  LET got == InitAcquired(outcome)
      local(r) == IF r \in got THEN "H" ELSE "INVALID"
      pty1 == [pty EXCEPT
                 !.hpc = IF "hpc" \in got THEN "H" ELSE @,
                 !.io_read = IF "io_read" \in got THEN "H"
                             ELSE IF outcome = "open_read" THEN "INVALID" ELSE @,
                 !.io_write = IF "io_write" \in got THEN "H"
                              ELSE IF outcome = "open_write" THEN "INVALID" ELSE @]
      rs1 == [r \in PResources |-> IF r \in got THEN Acquire(rs, r)[r] ELSE rs[r]]
      a0 == [rs |-> rs1, log |-> log, nulls |-> nulls]
      a1 == IF local("in_read") # "INVALID" THEN ErrClose(a0, "in_read", "H") ELSE a0
      a2 == IF local("out_write") # "INVALID" THEN ErrClose(a1, "out_write", "H") ELSE a1
      a3 == ErrClose(a2, "io_read", pty1.io_read)
      a4 == ErrClose(a3, "io_write", pty1.io_write)
  IN  IF outcome = "ok"
        THEN [ret |-> 0, pty |-> pty1,
              rs |-> Release(Release(rs1, "in_read"), "out_write"),
              log |-> log \o <<"in_read", "out_write">>, nulls |-> nulls]
        ELSE [ret |-> InitErrCode(outcome), pty |-> pty1, rs |-> a4.rs,
              log |-> a4.log, nulls |-> a4.nulls]

InitOutcomes == {"in_pipe", "out_pipe", "hpc", "open_read", "open_write", "ok"}

\* ret = conpty_init(&g_pty) in conpty_new
NewInit(outcome) ==
  /\ ppc = "n_init"
  /\ LET r == conpty_init(g_pty, pres, plog, nullCloses, outcome)
     IN  IF r.ret # 0
           THEN NewFail(outcome, r.ret, r.pty, r.rs, r.log, r.nulls)
           ELSE /\ ppc' = "n_spawn"
                /\ g_pty' = r.pty
                /\ pres' = r.rs
                /\ plog' = r.log
                /\ UNCHANGED <<pthr, pargs, pret, pfail, nullCloses, pclean>>

SpawnErrCode(outcome) ==
  CASE outcome = "malloc" -> ERROR_MALLOC_PROC_ATTR_FAILED
    [] outcome = "init_attr" -> ERROR_INIT_PROC_ATTR_FAILED
    [] outcome = "update_attr" -> ERROR_UPDATE_PROC_ATTR_FAILED
    [] outcome = "create_proc" -> ERROR_CREATE_PROC_FAILED
    [] OTHER -> 0

\* conpty_spawn(pty): the attribute list in the arena, its initialisation,
\* the pseudoconsole attribute, CreateProcessW; nothing is undone on
\* failure
conpty_spawn(pty, rs, log, outcome) ==
  LET pty1 == [pty EXCEPT !.lpAttributeList = IF outcome = "malloc" THEN "NULL" ELSE "H",
                          !.process = IF outcome = "ok" THEN "H" ELSE @]
      rs1 == IF outcome \in {"update_attr", "create_proc", "ok"}
               THEN Acquire(rs, "attr_list") ELSE rs
      rs2 == IF outcome = "ok"
               THEN Release(Acquire(Acquire(rs1, "process"), "hThread"), "hThread")
               ELSE rs1
  IN  [ret |-> SpawnErrCode(outcome), pty |-> pty1, rs |-> rs2,
       log |-> IF outcome = "ok" THEN Append(log, "hThread") ELSE log]

SpawnOutcomes == {"malloc", "init_attr", "update_attr", "create_proc", "ok"}

\* ret = conpty_spawn(&g_pty) in conpty_new
NewSpawn(outcome) ==
  /\ ppc = "n_spawn"
  /\ LET r == conpty_spawn(g_pty, pres, plog, outcome)
     IN  IF r.ret # 0
           THEN NewFail(outcome, r.ret, r.pty, r.rs, r.log, nullCloses)
           ELSE /\ ppc' = "n_assoc"
                /\ g_pty' = r.pty
                /\ pres' = r.rs
                /\ plog' = r.log
                /\ UNCHANGED <<pthr, pargs, pret, pfail, nullCloses, pclean>>

\* the two CreateIoCompletionPort calls that attach io_read and ctrl_pipe
NewAssoc(readOk, ctrlOk) ==
  /\ ppc = "n_assoc"
  /\ IF ~readOk
       THEN NewFail("io_read_iocp", ERROR_CREATE_IO_READ_IOCP_FAILED, g_pty, pres, plog, nullCloses)
       ELSE IF ~ctrlOk
         THEN NewFail("ctrl_read_iocp", ERROR_CREATE_CTRL_READ_IOCP_FAILED, g_pty, pres, plog,
                      nullCloses)
         ELSE NewGoto("n_thread", g_pty, pres)

\* CreateThread(iocp_entry) returns the handle `thread` ("H") or NULL; the
\* code compares it with INVALID_HANDLE_VALUE; then async_io_read and
\* async_ctrl_accept
NewThread(thread) ==
  /\ ppc = "n_thread"
  /\ IF thread = "INVALID"
       THEN /\ NewFail("thread", 0 - 1, g_pty, pres, plog, nullCloses)
       ELSE /\ ppc' = "n_run"
            /\ g_pty' = [g_pty EXCEPT !.iocp_thread = thread]
            /\ pres' = IF thread = "H" THEN Acquire(pres, "iocp_thread") ELSE pres
            /\ pthr' = IF thread = "H" THEN "waiting" ELSE "none"
            /\ UNCHANGED <<pargs, pret, pfail, nullCloses, plog, pclean>>

\* the head of stdio_run: ring_buffer_init (CreateEvent, unchecked) and
\* CreateWaitableTimer
StdioStart(event, timerOk) ==
  /\ ppc = "n_run"
  /\ LET pty1 == [g_pty EXCEPT !.flush_event = event,
                               !.flush_timer = IF timerOk THEN "H" ELSE "NULL"]
         rs1 == IF event = "H" THEN Acquire(pres, "flush_event") ELSE pres
     IN  IF ~timerOk
           THEN NewFail("flush_timer", 0 - 1, pty1, rs1, plog, nullCloses)
           ELSE NewGoto("running", pty1, Acquire(rs1, "flush_timer"))

\* the ways out of the loop of stdio_run: ReadFile on stdin fails (the
\* consumer closed it), flush_ring_buffer fails (the child is gone), the
\* wait fails
StdioExits == {"stdin_closed", "flush_failed", "wait_failed"}

\* stdio_run returns, by one of its ways out: each is a return -1
StdioReturn(why) ==
  /\ ppc = "running"
  /\ NewFail(why, 0 - 1, g_pty, pres, plog, nullCloses)

\* iocp_entry: GetQueuedCompletionStatus returns FALSE and the thread
\* returns -1
IocpThreadExit ==
  /\ pthr = "waiting"
  /\ pthr' = "exited"
  /\ UNCHANGED <<g_pty, pres, ppc, pargs, pret, pfail, nullCloses, plog, pclean>>

\* the calls of the block of conpty_cleanup for field f that matter to the
\* order of a teardown, the release of the field last
CleanupCalls(f) ==
  CASE f = "iocp_thread" -> <<"post_exit", "wait_thread", "iocp_thread">>
    [] f = "io_read" -> <<"cancel_read", "io_read">>
    [] OTHER -> <<ResourceOf(f)>>

\* one block of conpty_cleanup: the test of the field, its release, the
\* reset of the field; after the last block conpty_new returns pret
CleanupStep ==
  /\ ppc = "cleanup"
  /\ LET f == CleanupOrder[pclean]
         v == g_pty[f]
     IN  IF CleanupTest(f, v)
           THEN /\ pres' = Release(pres, ResourceOf(f))
                /\ plog' = plog \o CleanupCalls(f)
                /\ g_pty' = [g_pty EXCEPT ![f] = "NULL"]
           ELSE UNCHANGED <<pres, plog, g_pty>>
  /\ IF pclean = Len(CleanupOrder)
       THEN ppc' = "returned" /\ pclean' = 0
       ELSE ppc' = "cleanup" /\ pclean' = pclean + 1
  /\ UNCHANGED <<pthr, pargs, pret, pfail, nullCloses>>

ProxyIdle ==
  /\ g_pty = ZeroPty
  /\ pres = [r \in PResources |-> NoRes]
  /\ ppc = "start"
  /\ pthr = "none"
  /\ pargs = [argcOk |-> FALSE, idInUse |-> FALSE, w |-> 0, h |-> 0]
  /\ pret = NoReturn
  /\ pfail = "none"
  /\ nullCloses = 0
  /\ plog = <<>>
  /\ pclean = 0

(***************************************************************************)
(*   The completion-port thread of the proxy: iocp_entry, async_io_read,   *)
(*   on_ctrl_accept and async_ctrl_accept                                  *)
(***************************************************************************)
COMPLETION_KEY_IO_READ == 1
COMPLETION_KEY_CTRL_ACCEPT == 2

\* the sum of the lengths in a sequence
RECURSIVE SumLens(_)
SumLens(q) == IF q = <<>> THEN 0 ELSE Head(q) + SumLens(Tail(q))

\* the characters of a control message: a digit, a blank, or another one
Digits == <<"1", "2", "3", "4", "5", "6", "7", "8", "9">>

IsDigit(ch) == ch = "0" \/ \E i \in 1..Len(Digits) : Digits[i] = ch

DigitVal(ch) == IF ch = "0" THEN 0 ELSE CHOOSE i \in 1..Len(Digits) : Digits[i] = ch

\* the text without its leading blanks
RECURSIVE SkipBlanks(_)
SkipBlanks(t) == IF t # <<>> /\ Head(t) = " " THEN SkipBlanks(Tail(t)) ELSE t

\* the value of the leading digits of t after acc, and what follows them
RECURSIVE ReadDigits(_, _)
ReadDigits(t, acc) ==
  IF t # <<>> /\ IsDigit(Head(t))
    THEN ReadDigits(Tail(t), acc * 10 + DigitVal(Head(t)))
    ELSE [val |-> acc, rest |-> t]

\* one %d of sscanf_s: blanks, an optional sign, digits
ScanInt(t) ==
  LET u == SkipBlanks(t)
      neg == u # <<>> /\ Head(u) = "-"
      v == IF neg THEN Tail(u) ELSE u
      r == ReadDigits(v, 0)
  IN  IF v = <<>> \/ ~IsDigit(Head(v))
        THEN [ok |-> FALSE, val |-> 0, rest |-> t]
        ELSE [ok |-> TRUE, val |-> IF neg THEN 0 - r.val ELSE r.val, rest |-> r.rest]

\* sscanf_s(buf, "%d %d", &width, &height) with width = height = 0 before
sscanf_s(buf) ==
  LET a == ScanInt(buf)
      b == ScanInt(a.rest)
  IN  IF ~a.ok THEN <<0, 0>>
      ELSE IF ~b.ok THEN <<a.val, 0>>
      ELSE <<a.val, b.val>>

\* "w h" as conpty_resize and the test client print it ("%d %d", no
\* terminating NUL is sent)
SizeText(w, h) == <<Digits[w], " ", Digits[h]>>

\* what a client writes to the control pipe: nothing, text that is no
\* number, one number, a non-positive width or height, a size, or a size
\* whose width is an int above the largest SHORT
CtrlMessages ==
  {<<>>, <<"x">>, <<"1">>, <<"0", " ", "1">>, <<"1", " ", "0">>, <<"-", "1", " ", "1">>,
   <<"4", "0", "0", "0", "0", " ", "1">>}
    \cup {SizeText(w, h) : w \in 1..MaxWidth, h \in 1..MaxHeight}

\* what the uninitialised rest of buf holds after the bytes read: a NUL, a
\* digit, or a blank and a digit
BufTails == {<<>>, <<"1">>, <<" ", "2">>}

NoAccept ==
  [readed |-> 0, text |-> <<>>, msg |-> <<>>, before |-> <<0, 0>>, resized |-> FALSE,
   live |-> FALSE, rearmed |-> FALSE, coord |-> <<0, 0>>]

\* the width of a SHORT
ShortBits == 16

\* (SHORT) v: the low 16 bits of the int, read as a signed value
ToShort(v) ==
  LET m == v % (2 ^ ShortBits)
  IN  IF m >= 2 ^ (ShortBits - 1) THEN m - 2 ^ ShortBits ELSE m

\* an async_io_read into the buffer that is not the active one
AsyncReadInactive(active) == 1 - active

\* async_io_read(pty): ReadFile into io_buf[io_buf_active]
async_io_read(active) == active

\* the read in flight completes with n bytes of the child's output
\* (n = 0: a zero-length read); the packet is queued on the port
ReadComplete(n) ==
  /\ iocp_open
  /\ io_armed # 0 - 1
  /\ Len(readLens) < MaxReads
  /\ io_buf' = [io_buf EXCEPT ![io_armed] =
                  Bytes(SumLens(readLens) + 1, SumLens(readLens) + n)]
  /\ readLens' = Append(readLens, n)
  /\ iocpq' = Append(iocpq, [key |-> COMPLETION_KEY_IO_READ, n |-> n, ok |-> TRUE])
  /\ io_armed' = 0 - 1
  /\ UNCHANGED <<io_buf_active, iocp_thr, std_out, forwarded, ctrl, iocp_open>>

\* the read in flight fails (the pipe is broken): a failed packet
ReadFails ==
  /\ iocp_open
  /\ io_armed # 0 - 1
  /\ iocpq' = Append(iocpq, [key |-> COMPLETION_KEY_IO_READ, n |-> 0, ok |-> FALSE])
  /\ io_armed' = 0 - 1
  /\ UNCHANGED <<io_buf_active, io_buf, iocp_thr, std_out, forwarded, readLens,
                 ctrl, iocp_open>>

\* a client opens the control pipe: the ConnectNamedPipe in flight
\* completes and its packet is queued
CtrlConnect ==
  /\ iocp_open
  /\ ctrl.pipe_open
  /\ ctrl.armed
  /\ ctrl.sent < MaxCtrl
  /\ ctrl' = [ctrl EXCEPT !.armed = FALSE, !.sent = @ + 1, !.client = "connected"]
  /\ iocpq' = Append(iocpq, [key |-> COMPLETION_KEY_CTRL_ACCEPT, n |-> 0, ok |-> TRUE])
  /\ UNCHANGED <<io_buf_active, io_buf, io_armed, iocp_thr, std_out, forwarded,
                 readLens, iocp_open>>

\* the connected client writes its message (conpty_resize, or any other
\* program that opens the pipe)
CtrlSend(text) ==
  /\ ctrl.client = "connected"
  /\ ctrl' = [ctrl EXCEPT !.client = "sent", !.msg = text]
  /\ UNCHANGED <<io_buf_active, io_buf, io_armed, iocpq, iocp_thr, std_out, forwarded,
                 readLens, iocp_open>>

\* the connected client closes its end without writing
CtrlHangup ==
  /\ ctrl.client = "connected"
  /\ ctrl' = [ctrl EXCEPT !.client = "closed"]
  /\ UNCHANGED <<io_buf_active, io_buf, io_armed, iocpq, iocp_thr, std_out, forwarded,
                 readLens, iocp_open>>

\* conpty_cleanup: PostQueuedCompletionStatus(pty->iocp, 0, 0, NULL)
CleanupPost ==
  /\ iocp_open
  /\ ~ctrl.posted
  /\ ctrl' = [ctrl EXCEPT !.posted = TRUE]
  /\ iocpq' = Append(iocpq, [key |-> 0, n |-> 0, ok |-> TRUE])
  /\ UNCHANGED <<io_buf_active, io_buf, io_armed, iocp_thr, std_out, forwarded,
                 readLens, iocp_open>>

\* conpty_cleanup: CloseHandle(pty->iocp)
CleanupCloseIocp ==
  /\ iocp_open
  /\ ctrl.posted
  /\ iocp_open' = FALSE
  /\ UNCHANGED <<io_buf_active, io_buf, io_armed, iocpq, iocp_thr, std_out,
                 forwarded, readLens, ctrl>>

\* conpty_cleanup: CancelIo, DisconnectNamedPipe, CloseHandle(pty->ctrl_pipe)
CleanupCloseCtrl ==
  /\ ~iocp_open
  /\ ctrl.pipe_open
  /\ ctrl' = [ctrl EXCEPT !.pipe_open = FALSE, !.armed = FALSE]
  /\ UNCHANGED <<io_buf_active, io_buf, io_armed, iocpq, iocp_thr, std_out,
                 forwarded, readLens, iocp_open>>

\* conpty_cleanup: g_close_pseudo_console(pty->hpc)
CleanupCloseHpc ==
  /\ ~ctrl.pipe_open
  /\ ctrl.hpc_open
  /\ ctrl' = [ctrl EXCEPT !.hpc_open = FALSE]
  /\ UNCHANGED <<io_buf_active, io_buf, io_armed, iocpq, iocp_thr, std_out,
                 forwarded, readLens, iocp_open>>

\* on_ctrl_accept resizing only when width and height both differ from the
\* stored ones
OnCtrlAcceptBothDiffer(c) ==
  LET size == sscanf_s(c.buf.text)
      seen == [readed |-> c.buf.readed, text |-> c.buf.text, msg |-> c.msg,
               before |-> <<c.width, c.height>>, resized |-> FALSE,
               live |-> c.hpc_open, rearmed |-> FALSE, coord |-> <<0, 0>>]
  IN  IF c.buf.readed <= 0 \/ size[1] <= 0 \/ size[2] <= 0
           \/ c.width = size[1] \/ c.height = size[2]
        THEN [c EXCEPT !.last = seen]
        ELSE [c EXCEPT !.width = size[1], !.height = size[2],
                       !.last = [seen EXCEPT !.resized = TRUE,
                                             !.coord = <<ToShort(size[1]), ToShort(size[2])>>]]

\* on_ctrl_accept(pty) after its ReadFile left readed bytes in buf: the
\* checks of readed and of the size, the comparison with the stored size,
\* g_resize_pseudo_console
on_ctrl_accept(c) ==
  LET size == sscanf_s(c.buf.text)
      width == size[1]
      height == size[2]
      seen == [readed |-> c.buf.readed, text |-> c.buf.text, msg |-> c.msg,
               before |-> <<c.width, c.height>>, resized |-> FALSE,
               live |-> c.hpc_open, rearmed |-> FALSE, coord |-> <<0, 0>>]
  IN  IF c.buf.readed <= 0 THEN [c EXCEPT !.last = seen]
      ELSE IF width <= 0 \/ height <= 0 THEN [c EXCEPT !.last = seen]
      ELSE IF c.width = width /\ c.height = height THEN [c EXCEPT !.last = seen]
      ELSE [c EXCEPT !.width = width, !.height = height,
                     !.last = [seen EXCEPT !.resized = TRUE,
                                           !.coord = <<ToShort(width), ToShort(height)>>]]

\* async_ctrl_accept(pty): DisconnectNamedPipe, ConnectNamedPipe
async_ctrl_accept(c) ==
  [c EXCEPT !.armed = c.pipe_open, !.client = "none", !.msg = <<>>,
            !.buf = [readed |-> 0, text |-> <<>>],
            !.last = [@ EXCEPT !.rearmed = c.pipe_open]]

\* iocp_entry: GetQueuedCompletionStatus returns a packet; a read packet
\* toggles io_buf_active and issues the next read, a control packet
\* enters on_ctrl_accept, any other key is ignored
IocpDequeue ==
  /\ iocp_thr.pc = "wait"
  /\ iocp_open
  /\ iocpq # <<>>
  /\ LET p == Head(iocpq) IN
       /\ iocpq' = Tail(iocpq)
       /\ IF ~p.ok
            THEN /\ iocp_thr' = [iocp_thr EXCEPT !.pc = "exited"]
                 /\ UNCHANGED <<io_buf_active, io_armed>>
            ELSE IF p.key = COMPLETION_KEY_IO_READ
              THEN /\ io_buf_active' = 1 - io_buf_active
                   /\ io_armed' = async_io_read(1 - io_buf_active)
                   /\ iocp_thr' = [pc |-> IF p.n > 0 THEN "forward" ELSE "wait",
                                   current_buf |-> io_buf_active,
                                   bytes_readed |-> p.n]
              ELSE IF p.key = COMPLETION_KEY_CTRL_ACCEPT
                THEN /\ iocp_thr' = [iocp_thr EXCEPT !.pc = "ctrl_read"]
                     /\ UNCHANGED <<io_buf_active, io_armed>>
                ELSE UNCHANGED <<io_buf_active, io_armed, iocp_thr>>
  /\ UNCHANGED <<io_buf, std_out, forwarded, readLens, iocp_open, ctrl>>

\* on_ctrl_accept: the synchronous ReadFile(pty->ctrl_pipe, buf, 64)
\* returns once the client has written or has gone, or the pipe was
\* closed; buf holds the bytes read followed by what the stack held
IocpCtrlRead(tail) ==
  /\ iocp_thr.pc = "ctrl_read"
  /\ ctrl.client \in {"sent", "closed"} \/ ~ctrl.pipe_open
  /\ LET readed == IF ctrl.client = "sent" /\ ctrl.pipe_open THEN Len(ctrl.msg) ELSE 0
     IN  /\ readed = 0 => tail = <<>>
         /\ ctrl' = [ctrl EXCEPT !.buf = [readed |-> readed,
                                          text |-> IF readed = 0 THEN tail
                                                   ELSE ctrl.msg \o tail]]
  /\ iocp_thr' = [iocp_thr EXCEPT !.pc = "ctrl_apply"]
  /\ UNCHANGED <<io_buf_active, io_buf, io_armed, iocpq, std_out, forwarded, readLens,
                 iocp_open>>

\* the rest of on_ctrl_accept, then async_ctrl_accept
IocpCtrlApply ==
  /\ iocp_thr.pc = "ctrl_apply"
  /\ ctrl' = async_ctrl_accept(on_ctrl_accept(ctrl))
  /\ iocp_thr' = [iocp_thr EXCEPT !.pc = "wait"]
  /\ UNCHANGED <<io_buf_active, io_buf, io_armed, iocpq, std_out, forwarded, readLens,
                 iocp_open>>

\* iocp_entry: WriteFile(pty->std_out, pty->io_buf[current_buf], bytes_readed)
IocpForward ==
  /\ iocp_thr.pc = "forward"
  /\ std_out' = std_out \o SubSeq(io_buf[iocp_thr.current_buf], 1, iocp_thr.bytes_readed)
  /\ forwarded' = Append(forwarded, iocp_thr.current_buf)
  /\ iocp_thr' = [iocp_thr EXCEPT !.pc = "wait"]
  /\ UNCHANGED <<io_buf_active, io_buf, io_armed, iocpq, readLens, ctrl, iocp_open>>

\* iocp_entry: GetQueuedCompletionStatus fails because the port was closed
IocpAbandoned ==
  /\ iocp_thr.pc = "wait"
  /\ ~iocp_open
  /\ iocp_thr' = [iocp_thr EXCEPT !.pc = "exited"]
  /\ UNCHANGED <<io_buf_active, io_buf, io_armed, iocpq, std_out, forwarded,
                 readLens, ctrl, iocp_open>>

\* the state conpty_new leaves when it calls stdio_run: the thread waits,
\* the first read is issued into buffer 0, the control pipe listens
PumpIdle ==
  /\ io_buf_active = 0
  /\ io_buf = [i \in 0..1 |-> <<>>]
  /\ io_armed = async_io_read(0)
  /\ iocpq = <<>>
  /\ iocp_thr = [pc |-> "wait", current_buf |-> 0, bytes_readed |-> 0]
  /\ std_out = <<>>
  /\ forwarded = <<>>
  /\ readLens = <<>>
  /\ ctrl = [width |-> 1, height |-> 1, msg |-> <<>>, armed |-> TRUE, sent |-> 0,
             client |-> "none", buf |-> [readed |-> 0, text |-> <<>>],
             posted |-> FALSE, last |-> NoAccept,
             hpc_open |-> TRUE, pipe_open |-> TRUE]
  /\ iocp_open = TRUE

(***************************************************************************)
(*   The stdin loop of the proxy: the ring buffer operations,              *)
(*   flush_ring_buffer and stdio_run                                       *)
(***************************************************************************)
\* rb is [read_pos, write_pos]; rb->capacity is RingCap
ring_buffer_available_read(rb) ==
  IF rb.write_pos >= rb.read_pos
    THEN rb.write_pos - rb.read_pos
    ELSE RingCap - rb.read_pos + rb.write_pos

\* a consume that forgets the wrap at the end of the storage
ConsumeNoWrap(rb, bytes) == [rb EXCEPT !.read_pos = rb.read_pos + bytes]

\* a consume that passes the whole run offered, accepted or not
ConsumeWholeRun(rb, bytes) ==
  [rb EXCEPT !.read_pos = IF rb.write_pos >= rb.read_pos THEN rb.write_pos ELSE 0]

\* a ring whose producer does not look at read_pos
AvailableWriteIgnoresReader(rb) == RingCap - 1

\* a ring that uses its last free cell too
AvailableWriteNoSpare(rb) == RingCap - ring_buffer_available_read(rb)

ring_buffer_available_write(rb) == RingCap - ring_buffer_available_read(rb) - 1

\* ring_buffer_write(rb, data, size): the two memcpy cases store byte i of
\* data at cell (write_pos + i) % capacity; returns the bytes stored
ring_buffer_write(rb, storage, data) ==
  LET available == ring_buffer_available_write(rb)
      to_write == IF Len(data) < available THEN Len(data) ELSE available
      first_chunk == RingCap - rb.write_pos
      cell(i) == IF i <= first_chunk THEN rb.write_pos + i - 1 ELSE i - first_chunk - 1
  IN  IF to_write = 0
        THEN [rb |-> rb, storage |-> storage, written |-> 0]
        ELSE [rb |-> [rb EXCEPT !.write_pos = (rb.write_pos + to_write) % RingCap],
              storage |-> [c \in 0..(RingCap - 1) |->
                             IF \E i \in 1..to_write : cell(i) = c
                               THEN data[CHOOSE i \in 1..to_write : cell(i) = c]
                               ELSE storage[c]],
              written |-> to_write]

\* ring_buffer_get_contiguous_read(rb, &ptr): the length of the readable
\* run that starts at read_pos and does not pass the end of the storage
ring_buffer_get_contiguous_read(rb) ==
  IF rb.write_pos >= rb.read_pos
    THEN rb.write_pos - rb.read_pos
    ELSE RingCap - rb.read_pos

ring_buffer_consume(rb, bytes) ==
  [rb EXCEPT !.read_pos = (rb.read_pos + bytes) % RingCap]

\* the bytes the ring holds, oldest first
RingContents(rb, storage) ==
  [i \in 1..ring_buffer_available_read(rb) |-> storage[(rb.read_pos + i - 1) % RingCap]]

\* what WriteFile(pty->io_write, ptr, available) does with the bytes it is
\* offered: "full" takes all, "one" takes one, "zero" succeeds with none,
\* "fail" returns FALSE
AcceptModes == {"full", "one", "zero", "fail"}

Writted(mode, available) ==
  CASE mode = "full" -> available
    [] mode = "one" -> 1
    [] OTHER -> 0

\* flush_ring_buffer(pty): the loop over the contiguous runs; acc gives
\* the outcome of each WriteFile in turn
RECURSIVE flush_ring_buffer(_, _, _, _, _)
flush_ring_buffer(rb, storage, out, segs, acc) ==
  LET available == ring_buffer_get_contiguous_read(rb)
      mode == IF acc = <<>> THEN "full" ELSE Head(acc)
      rest == IF acc = <<>> THEN acc ELSE Tail(acc)
      writted == Writted(mode, available)
      seg == [pos |-> rb.read_pos, offered |-> available, writted |-> writted]
  IN  IF available = 0
        THEN [ret |-> 0, rb |-> rb, out |-> out, segs |-> segs, acc |-> acc]
      ELSE IF mode = "fail"
        THEN [ret |-> 0 - 1, rb |-> rb, out |-> out, segs |-> segs, acc |-> rest]
      ELSE IF writted > 0
        THEN flush_ring_buffer(
               ring_buffer_consume(rb, writted), storage,
               out \o [i \in 1..writted |-> storage[rb.read_pos + i - 1]],
               Append(segs, seg), rest)
        ELSE [ret |-> 0, rb |-> rb, out |-> out, segs |-> Append(segs, seg),
              acc |-> rest]

\* the record kept of a flush_ring_buffer call that started at rb
FlushRecord(rb, f) ==
  [read_pos |-> rb.read_pos, write_pos |-> rb.write_pos, segs |-> f.segs,
   ret |-> f.ret, emptied |-> ring_buffer_available_read(f.rb) = 0, end |-> f.rb]

NoFlush ==
  [read_pos |-> 0, write_pos |-> 0, segs |-> <<>>, ret |-> 0, emptied |-> TRUE,
   end |-> [read_pos |-> 0, write_pos |-> 0]]

\* a threshold test that waits for the ring to be full
ShouldFlushWhenFull(held) == held >= RingCap - 1

\* ring_buffer_available_read(&pty->write_ring) >= COALESCE_THRESHOLD
ShouldFlush(held) == held >= COALESCE_THRESHOLD

\* a timer handler that flushes at the coalescing threshold only
TimerShouldFlushAtThreshold(held) == held >= COALESCE_THRESHOLD

\* ring_buffer_available_read(&pty->write_ring) > 0
TimerShouldFlush(held) == held > 0

\* the record of a handler of stdio_run
Woke(src, held, flushed) == [src |-> src, held |-> held, flushed |-> flushed]

\* stdio_run, WAIT_OBJECT_0: ReadFile(stdin) returns n bytes; they go to
\* the ring, with a forced flush if they do not fit, and the ring is
\* flushed if it holds COALESCE_THRESHOLD bytes or more
StdinChunk(n, acc) ==
  /\ stdio_pc = "running"
  /\ supplied + n <= MaxIn
  /\ LET data == Bytes(supplied + 1, supplied + n)
         w1 == ring_buffer_write(write_ring, write_ring_storage, data)
         short == w1.written < n
         f1 == flush_ring_buffer(w1.rb, w1.storage, io_write_out, <<>>, acc)
         w2 == ring_buffer_write(f1.rb, w1.storage, SubSeq(data, w1.written + 1, n))
         \* the ring, the storage, the output and the outcomes left after
         \* the first part of the handler
         m == IF short
                THEN [rb |-> w2.rb, storage |-> w2.storage, out |-> f1.out,
                      acc |-> f1.acc, lost |-> n - w1.written - w2.written,
                      flush |-> FlushRecord(w1.rb, f1)]
                ELSE [rb |-> w1.rb, storage |-> w1.storage, out |-> io_write_out,
                      acc |-> acc, lost |-> 0, flush |-> lastFlush]
         f2 == flush_ring_buffer(m.rb, m.storage, m.out, <<>>, m.acc)
     IN  /\ supplied' = supplied + n
         /\ IF short /\ f1.ret # 0
              THEN /\ stdio_pc' = "returned"
                   /\ write_ring' = f1.rb
                   /\ write_ring_storage' = w1.storage
                   /\ io_write_out' = f1.out
                   /\ lastFlush' = FlushRecord(w1.rb, f1)
                   /\ lost' = Min(lost + n - w1.written, MaxIn)
                   /\ wake' = Woke("stdin", ring_buffer_available_read(w1.rb), TRUE)
                   /\ f1.acc = <<>>
              ELSE IF ShouldFlush(ring_buffer_available_read(m.rb))
                THEN /\ stdio_pc' = IF f2.ret # 0 THEN "returned" ELSE "running"
                     /\ write_ring' = f2.rb
                     /\ write_ring_storage' = m.storage
                     /\ io_write_out' = f2.out
                     /\ lastFlush' = FlushRecord(m.rb, f2)
                     /\ lost' = Min(lost + m.lost, MaxIn)
                     /\ wake' = Woke("stdin", ring_buffer_available_read(m.rb), TRUE)
                     /\ f2.acc = <<>>
                ELSE /\ stdio_pc' = "running"
                     /\ write_ring' = m.rb
                     /\ write_ring_storage' = m.storage
                     /\ io_write_out' = m.out
                     /\ lastFlush' = m.flush
                     /\ lost' = Min(lost + m.lost, MaxIn)
                     /\ wake' = Woke("stdin", ring_buffer_available_read(m.rb), FALSE)
                     /\ m.acc = <<>>

\* stdio_run, WAIT_OBJECT_0 + 1: the timer fired; the ring is flushed if
\* it holds anything
TimerFire(acc) ==
  /\ stdio_pc = "running"
  /\ LET held == ring_buffer_available_read(write_ring)
         f == flush_ring_buffer(write_ring, write_ring_storage, io_write_out, <<>>, acc)
     IN  IF TimerShouldFlush(held)
           THEN /\ f.acc = <<>>
                /\ stdio_pc' = IF f.ret # 0 THEN "returned" ELSE "running"
                /\ write_ring' = f.rb
                /\ io_write_out' = f.out
                /\ lastFlush' = FlushRecord(write_ring, f)
                /\ wake' = Woke("timer", held, TRUE)
           ELSE /\ acc = <<>>
                /\ wake' = Woke("timer", held, FALSE)
                /\ UNCHANGED <<stdio_pc, write_ring, io_write_out, lastFlush>>
  /\ UNCHANGED <<write_ring_storage, supplied, lost>>

\* stdio_run: ReadFile(stdin) fails with an error other than
\* ERROR_NO_DATA, or the wait fails
StdinFails ==
  /\ stdio_pc = "running"
  /\ stdio_pc' = "returned"
  /\ UNCHANGED <<write_ring, write_ring_storage, supplied, io_write_out, lastFlush, lost,
                 wake>>

\* the outcomes chosen for the WriteFile calls of one handler
AccPatterns == UNION {[1..k -> AcceptModes] : k \in 0..MaxAcc}

\* the state after ring_buffer_init in stdio_run
InputIdle ==
  /\ write_ring = [read_pos |-> 0, write_pos |-> 0]
  /\ write_ring_storage = [c \in 0..(RingCap - 1) |-> 0]
  /\ supplied = 0
  /\ io_write_out = <<>>
  /\ lastFlush = NoFlush
  /\ lost = 0
  /\ stdio_pc = "running"
  /\ wake = Woke("none", 0, FALSE)

(***************************************************************************)
(*   The ring buffer used from two threads, one calling ring_buffer_write  *)
(*   and one calling flush_ring_buffer, each step being one load or one    *)
(*   store of a cursor, or the copy of the bytes between them.             *)
(***************************************************************************)
\* the ring as a thread sees it that loaded read_pos = r and write_pos = w
RingSeen(r, w) == [read_pos |-> r, write_pos |-> w]

\* ring_buffer_write, ring_buffer_available_write: the loads of write_pos
\* and of read_pos; the call returns 0 when no byte can be stored
ProducerLoad(n) ==
  /\ producer.pc = "idle"
  /\ spsc_made + n <= MaxIn
  /\ LET seen == RingSeen(spsc_ring.read_pos, spsc_ring.write_pos)
         data == Bytes(spsc_made + 1, spsc_made + n)
     IN  producer' = IF ring_buffer_write(seen, spsc_storage, data).written = 0
                       THEN [producer EXCEPT !.refused = TRUE]
                       ELSE [pc |-> "copy", data |-> data, seen |-> seen,
                             refused |-> FALSE]
  /\ UNCHANGED <<spsc_ring, spsc_storage, consumer, spsc_made, spsc_out>>

\* ring_buffer_write: the memcpy of to_write bytes, in one or two parts
ProducerCopy ==
  /\ producer.pc = "copy"
  /\ spsc_storage' = ring_buffer_write(producer.seen, spsc_storage, producer.data).storage
  /\ producer' = [producer EXCEPT !.pc = "store"]
  /\ UNCHANGED <<spsc_ring, consumer, spsc_made, spsc_out>>

\* ring_buffer_write: InterlockedExchange(&rb->write_pos, ...)
ProducerStore ==
  /\ producer.pc = "store"
  /\ LET w == ring_buffer_write(producer.seen, spsc_storage, producer.data)
     IN  /\ spsc_ring' = [spsc_ring EXCEPT !.write_pos = w.rb.write_pos]
         /\ spsc_made' = spsc_made + w.written
  /\ producer' = [producer EXCEPT !.pc = "idle", !.data = <<>>]
  /\ UNCHANGED <<spsc_storage, consumer, spsc_out>>

\* flush_ring_buffer, ring_buffer_get_contiguous_read: the loads of
\* read_pos and of write_pos; the loop ends when nothing is readable
ConsumerLoad ==
  /\ consumer.pc = "idle"
  /\ LET seen == RingSeen(spsc_ring.read_pos, spsc_ring.write_pos)
     IN  consumer' = IF ring_buffer_get_contiguous_read(seen) = 0
                       THEN [consumer EXCEPT !.empty = TRUE]
                       ELSE [pc |-> "write", seen |-> seen, writted |-> 0,
                             empty |-> FALSE]
  /\ UNCHANGED <<spsc_ring, spsc_storage, producer, spsc_made, spsc_out>>

\* flush_ring_buffer: WriteFile reads the run at read_ptr and accepts
\* writted of its bytes
ConsumerWrite(writted) ==
  /\ consumer.pc = "write"
  /\ writted <= ring_buffer_get_contiguous_read(consumer.seen)
  /\ spsc_out' = spsc_out \o [i \in 1..writted |->
                                spsc_storage[consumer.seen.read_pos + i - 1]]
  /\ consumer' = [consumer EXCEPT !.pc = "consume", !.writted = writted]
  /\ UNCHANGED <<spsc_ring, spsc_storage, producer, spsc_made>>

\* ring_buffer_consume: InterlockedExchange(&rb->read_pos, ...)
ConsumerStore ==
  /\ consumer.pc = "consume"
  /\ spsc_ring' = [spsc_ring EXCEPT
                     !.read_pos = ring_buffer_consume(spsc_ring, consumer.writted).read_pos]
  /\ consumer' = [consumer EXCEPT !.pc = "idle", !.writted = 0]
  /\ UNCHANGED <<spsc_storage, producer, spsc_made, spsc_out>>

\* the state after ring_buffer_init
RingIdle ==
  /\ spsc_ring = RingSeen(0, 0)
  /\ spsc_storage = [c \in 0..(RingCap - 1) |-> 0]
  /\ producer = [pc |-> "idle", data |-> <<>>, seen |-> RingSeen(0, 0),
                 refused |-> FALSE]
  /\ consumer = [pc |-> "idle", seen |-> RingSeen(0, 0), writted |-> 0,
                 empty |-> FALSE]
  /\ spsc_made = 0
  /\ spsc_out = <<>>

(***************************************************************************)
(*   The arena allocator: src/arena.c (blocks grow exponentially, the      *)
(*   first block is made by arena_create) and src/conpty-proxy/arena.c     *)
(*   (blocks of the default size, the first made by the first              *)
(*   arena_alloc).  A pointer is the block it lies in, numbered from the   *)
(*   oldest, and its offset from block->buffer.                            *)
(***************************************************************************)
\* size_t values are 0..SizeMod - 1
SizeMod == 2 ^ WordBits

NullPtr == [blk |-> 0, off |-> 0, size |-> 0]

\* no allocator: before arena_create and after arena_destroy
NoAllocator ==
  [variant |-> "none", blocks |-> <<>>, default_block_size |-> 0,
   next_block_size |-> 0]

\* size rounded without the 8-byte alignment
AlignNone(size) == size % SizeMod

\* size = (size + 7) & ~(size_t)7
AlignUp(size) == ((size + 7) % SizeMod) - (((size + 7) % SizeMod) % 8)

\* arena_new_block(allocator, min_size) of src/arena.c, vm_alloc succeeding
arena_new_block(a, min_size) ==
  LET block_size == IF min_size > a.next_block_size THEN min_size
                    ELSE a.next_block_size
  IN  [a EXCEPT !.blocks = <<[size |-> block_size, used |-> 0]>> \o @,
                !.next_block_size = (block_size * 2) % SizeMod]

\* the block arena_alloc of src/conpty-proxy/arena.c prepends, VirtualAlloc
\* succeeding
proxy_new_block(a, size) ==
  LET block_size == IF size > a.default_block_size THEN size
                    ELSE a.default_block_size
  IN  [a EXCEPT !.blocks = <<[size |-> block_size, used |-> 0]>> \o @]

\* an arena_alloc that doubles next_block_size before it asks for the block
AllocGrowsBeforeAsking(a, size, vmOk) ==
  LET sz == AlignUp(size)
      full == \/ a.blocks = <<>>
              \/ (Head(a.blocks).used + sz) % SizeMod > Head(a.blocks).size
      a1 == IF ~full THEN a
            ELSE IF a.variant = "proxy" THEN proxy_new_block(a, sz)
            ELSE arena_new_block(a, sz)
      arena == Head(a1.blocks)
  IN  IF full /\ ~vmOk
        THEN [a |-> [a EXCEPT !.next_block_size = a1.next_block_size],
              ptr |-> NullPtr, block |-> "refused"]
        ELSE [a |-> [a1 EXCEPT !.blocks[1].used = (arena.used + sz) % SizeMod],
              ptr |-> [blk |-> Len(a1.blocks), off |-> arena.used, size |-> sz],
              block |-> IF full THEN "new" ELSE "current"]

\* arena_alloc(allocator, size) of either file: the allocator after the
\* call and the pointer returned; vmOk is whether a block can be had
arena_alloc(a, size, vmOk) ==
  LET sz == AlignUp(size)
      full == \/ a.blocks = <<>>
              \/ (Head(a.blocks).used + sz) % SizeMod > Head(a.blocks).size
      a1 == IF ~full THEN a
            ELSE IF a.variant = "proxy" THEN proxy_new_block(a, sz)
            ELSE arena_new_block(a, sz)
      arena == Head(a1.blocks)
  IN  IF full /\ ~vmOk
        THEN [a |-> a, ptr |-> NullPtr, block |-> "refused"]
        ELSE [a |-> [a1 EXCEPT !.blocks[1].used = (arena.used + sz) % SizeMod],
              ptr |-> [blk |-> Len(a1.blocks), off |-> arena.used, size |-> sz],
              block |-> IF full THEN "new" ELSE "current"]

\* a reset that rewinds the current block only
ResetCurrentOnly(a) ==
  [a EXCEPT !.blocks = [i \in 1..Len(a.blocks) |->
                          IF i = 1 THEN [a.blocks[i] EXCEPT !.used = 0]
                          ELSE a.blocks[i]]]

\* arena_reset(allocator)
arena_reset(a) ==
  [a EXCEPT !.blocks = [i \in 1..Len(a.blocks) |-> [a.blocks[i] EXCEPT !.used = 0]],
            !.next_block_size = IF a.variant = "proxy" THEN @
                                ELSE a.default_block_size]

\* a region had from vm_alloc: block blk (numbered from the oldest) of the
\* gen-th allocator, or its header (blk = 0)
Region(gen, blk) == [gen |-> gen, blk |-> blk]

\* a destroy that gives back the current block and the header only
DestroyCurrentOnly(a, gen) ==
  (IF a.blocks = <<>> THEN <<>> ELSE <<Region(gen, Len(a.blocks))>>)
    \o <<Region(gen, 0)>>

\* arena_destroy(allocator): the regions it gives back, in order: the chain
\* from the current block to the oldest, then the header
arena_destroy(a, gen) ==
  [i \in 1..Len(a.blocks) |-> Region(gen, Len(a.blocks) + 1 - i)]
    \o <<Region(gen, 0)>>

\* sizes asked of the allocator: nothing, a byte, one and two words, and
\* sizes whose rounding or whose sum with used passes the end of size_t
ArenaSizes == {0, 1, 8, 9, SizeMod - 8, SizeMod - 1}

DefaultBlockSizes == {8, 12, 16}

Returned(op, ptr) == [op |-> op, ptr |-> ptr, calls |-> aret.calls + 1]

NoHistory == [live |-> {}, grown |-> <<>>, oom |-> FALSE, asked |-> <<>>]

\* the outcomes of the two vm_alloc calls of arena_create
CreateOutcomes == {"ok", "no_header", "no_block"}

\* arena_create(default_block_size); src/arena.c also makes the first block
\* and gives the header back when that block cannot be had
ArenaCreate(variant, size, vmOk) ==
  /\ allocator.variant = "none"
  /\ aret.calls < MaxArenaOps
  /\ variant = "proxy" => vmOk # "no_block"
  /\ LET a0 == [variant |-> variant, blocks |-> <<>>, default_block_size |-> size,
                next_block_size |-> IF variant = "proxy" THEN 0 ELSE size]
         a1 == IF variant = "proxy" THEN a0 ELSE arena_new_block(a0, size)
     IN  /\ allocator' = IF vmOk = "ok" THEN a1 ELSE NoAllocator
         /\ ahist' = IF vmOk = "ok" /\ variant = "module"
                       THEN [NoHistory EXCEPT
                               !.grown = <<[want |-> size, size |-> Head(a1.blocks).size]>>]
                       ELSE [NoHistory EXCEPT !.oom = vmOk # "ok"]
         /\ vm' = IF vmOk = "no_header" THEN vm
                  ELSE [gen |-> vm.gen + 1,
                        made |-> IF vmOk = "ok" THEN Len(a1.blocks) ELSE 0,
                        freed |-> IF vmOk = "ok" THEN vm.freed
                                  ELSE Append(vm.freed, Region(vm.gen + 1, 0))]
  /\ aret' = Returned("create", NullPtr)

\* the state after a call that ends in arena_alloc, r being what arena_alloc
\* made of the allocator
Allocated(op, r) ==
  /\ allocator' = r.a
  /\ aret' = Returned(op, r.ptr)
  /\ ahist' = [live |-> IF r.ptr = NullPtr THEN ahist.live
                        ELSE ahist.live \cup {r.ptr},
               grown |-> IF r.block = "new"
                           THEN Append(ahist.grown,
                                       [want |-> r.ptr.size,
                                        size |-> Head(r.a.blocks).size])
                           ELSE ahist.grown,
               oom |-> r.block = "refused",
               asked |-> Append(ahist.asked,
                                IF r.block = "refused" THEN 0 - 1 ELSE r.ptr.size)]
  /\ vm' = [vm EXCEPT !.made = IF r.block = "new" THEN @ + 1 ELSE @]

\* arena_alloc(allocator, size)
ArenaAlloc(size, vmOk) ==
  /\ allocator.variant # "none"
  /\ aret.calls < MaxArenaOps
  /\ Allocated("alloc", arena_alloc(allocator, size, vmOk))

\* arena_calloc(allocator, count, elem_size): total = count * elem_size
ArenaCalloc(count, elem_size, vmOk) ==
  /\ allocator.variant = "module"
  /\ aret.calls < MaxArenaOps
  /\ Allocated("calloc", arena_alloc(allocator, (count * elem_size) % SizeMod, vmOk))

\* arena_strdup(allocator, str) for a string of length strlen, or for
\* str = NULL (strlen = -1)
ArenaStrdup(strlen, vmOk) ==
  /\ allocator.variant = "module"
  /\ aret.calls < MaxArenaOps
  /\ IF strlen < 0
       THEN /\ aret' = Returned("strdup", NullPtr)
            /\ ahist' = [ahist EXCEPT !.oom = FALSE]
            /\ UNCHANGED <<allocator, vm>>
       ELSE Allocated("strdup", arena_alloc(allocator, strlen + 1, vmOk))

\* arena_realloc(allocator, old_ptr, old_size, new_size): a fresh
\* allocation; the copy changes nothing in the allocator
ArenaRealloc(new_size, vmOk) ==
  /\ allocator.variant = "module"
  /\ aret.calls < MaxArenaOps
  /\ Allocated("realloc", arena_alloc(allocator, new_size, vmOk))

\* arena_reset(allocator)
ArenaReset ==
  /\ allocator.variant # "none"
  /\ aret.calls < MaxArenaOps
  /\ allocator' = arena_reset(allocator)
  /\ aret' = Returned("reset", NullPtr)
  /\ ahist' = NoHistory
  /\ UNCHANGED vm

\* arena_destroy(allocator)
ArenaDestroy ==
  /\ allocator.variant # "none"
  /\ aret.calls < MaxArenaOps
  /\ allocator' = NoAllocator
  /\ aret' = Returned("destroy", NullPtr)
  /\ ahist' = NoHistory
  /\ vm' = [vm EXCEPT !.freed = @ \o arena_destroy(allocator, vm.gen)]

ArenaIdle ==
  /\ allocator = NoAllocator
  /\ aret = [op |-> "none", ptr |-> NullPtr, calls |-> 0]
  /\ ahist = NoHistory
  /\ vm = [gen |-> 0, made |-> 0, freed |-> <<>>]

(***************************************************************************)
(*   The specifications.  All start from the same state; each moves the    *)
(*   variables of one part of the program and leaves the others alone.     *)
(***************************************************************************)
Init == InprocIdle /\ ProxyIdle /\ PumpIdle /\ InputIdle /\ ArenaIdle /\ RingIdle

OnlyInproc == UNCHANGED <<pvars, uvars, nvars, avars, rvars>>
OnlyProxy == UNCHANGED <<ivars, uvars, nvars, avars, rvars>>
OnlyPump == UNCHANGED <<ivars, pvars, nvars, avars, rvars>>
OnlyInput == UNCHANGED <<ivars, pvars, uvars, avars, rvars>>
OnlyArena == UNCHANGED <<ivars, pvars, uvars, nvars, rvars>>
OnlyRing == UNCHANGED <<ivars, pvars, uvars, nvars, avars>>

\* the Lisp calls into src/conpty.c, the pump thread and the child
NextInproc ==
  \/ \E w \in 0..MaxWidth, h \in 0..MaxHeight : InitCall(w, h) /\ OnlyInproc
  \/ \E a \in BOOLEAN, m \in BOOLEAN : InitApi(a, m) /\ OnlyInproc
  \/ \E a \in BOOLEAN : InitState(a) /\ OnlyInproc
  \/ \E fd \in {-1, 3} : InitChannel(fd) /\ OnlyInproc
  \/ \E o \in {"ok", "first", "second"} : InitPipes(o) /\ OnlyInproc
  \/ \E ok \in BOOLEAN : InitHpc(ok) /\ OnlyInproc
  \/ \E o \in {"ok", "malloc", "attr", "wshell"} : InitAttr(o) /\ OnlyInproc
  \/ \E ok \in BOOLEAN : InitSpawn(ok) /\ OnlyInproc
  \/ \E ok \in BOOLEAN : InitThread(ok) /\ OnlyInproc
  \/ KillCall /\ OnlyInproc
  \/ \E t \in BOOLEAN : KillJoin(t) /\ OnlyInproc
  \/ ReadPending /\ OnlyInproc
  \/ \E n \in 0..MaxWrite, m \in BOOLEAN, k \in 0..MaxWrite :
       WriteInput(n, m, k) /\ OnlyInproc
  \/ \E w \in 0..MaxWidth, h \in 0..MaxHeight, ok \in BOOLEAN :
       ResizeCall(w, h, ok) /\ OnlyInproc
  \/ \E g \in BOOLEAN, c \in {0, STILL_ACTIVE} : IsAlive(g, c) /\ OnlyInproc
  \/ ChildExit /\ OnlyInproc
  \/ PumpStart /\ OnlyInproc
  \/ PumpLoop /\ OnlyInproc
  \/ \E n \in 0..OutBufCap : PumpRead(n) /\ OnlyInproc
  \/ PumpAppend /\ OnlyInproc
  \/ PumpNotify /\ OnlyInproc

SpecInproc == Init /\ [][NextInproc]_vars

\* the pump thread and a call in progress keep running; Lisp need not call
FairInproc ==
  /\ SpecInproc
  /\ WF_vars((PumpStart \/ PumpLoop \/ PumpAppend \/ PumpNotify) /\ OnlyInproc)
  /\ WF_vars((\E t \in BOOLEAN : KillJoin(t)) /\ OnlyInproc)

\* conpty_proxy.exe new id width height cmd, up to the return of conpty_new
NextProxy ==
  \/ \E a \in BOOLEAN, d \in BOOLEAN, w \in 0..MaxWidth, h \in 0..MaxHeight,
        m \in BOOLEAN : NewStart(a, d, w, h, m) /\ OnlyProxy
  \/ \E c \in BOOLEAN : NewCtrlPipe(c) /\ OnlyProxy
  \/ \E a \in BOOLEAN, i \in BOOLEAN : NewIocp(a, i) /\ OnlyProxy
  \/ \E o \in InitOutcomes : NewInit(o) /\ OnlyProxy
  \/ \E o \in SpawnOutcomes : NewSpawn(o) /\ OnlyProxy
  \/ \E r \in BOOLEAN, c \in BOOLEAN : NewAssoc(r, c) /\ OnlyProxy
  \/ \E t \in {"H", "NULL"} : NewThread(t) /\ OnlyProxy
  \/ \E e \in {"H", "NULL"}, t \in BOOLEAN : StdioStart(e, t) /\ OnlyProxy
  \/ \E y \in StdioExits : StdioReturn(y) /\ OnlyProxy
  \/ IocpThreadExit /\ OnlyProxy
  \/ CleanupStep /\ OnlyProxy

SpecProxy == Init /\ [][NextProxy]_vars

\* conpty_cleanup has no loop and no unbounded wait (its join is
\* WaitForSingleObject with 5000 ms): a cleanup that began goes on
FairProxy == SpecProxy /\ WF_vars(CleanupStep /\ OnlyProxy)

\* the completion-port thread, the output endpoint and the control pipe
NextPump ==
  \/ \E n \in 0..(IoBufCap - 1) : ReadComplete(n) /\ OnlyPump
  \/ ReadFails /\ OnlyPump
  \/ CtrlConnect /\ OnlyPump
  \/ \E t \in CtrlMessages : CtrlSend(t) /\ OnlyPump
  \/ CtrlHangup /\ OnlyPump
  \/ CleanupPost /\ OnlyPump
  \/ CleanupCloseIocp /\ OnlyPump
  \/ CleanupCloseCtrl /\ OnlyPump
  \/ CleanupCloseHpc /\ OnlyPump
  \/ IocpDequeue /\ OnlyPump
  \/ \E t \in BufTails : IocpCtrlRead(t) /\ OnlyPump
  \/ IocpCtrlApply /\ OnlyPump
  \/ IocpForward /\ OnlyPump
  \/ IocpAbandoned /\ OnlyPump

SpecPump == Init /\ [][NextPump]_vars

\* the completion-port thread runs whenever it has a step to take; the
\* child, the control client and teardown need not act
FairPump ==
  /\ SpecPump
  /\ WF_vars((IocpDequeue \/ IocpForward \/ IocpCtrlApply \/ IocpAbandoned
               \/ \E t \in BufTails : IocpCtrlRead(t)) /\ OnlyPump)

\* the output path of a proxy no client of the control pipe talks to: the
\* reads of the child's output, the thread that forwards them, teardown
NextOutput ==
  \/ \E n \in 0..(IoBufCap - 1) : ReadComplete(n) /\ OnlyPump
  \/ ReadFails /\ OnlyPump
  \/ CleanupPost /\ OnlyPump
  \/ CleanupCloseIocp /\ OnlyPump
  \/ IocpDequeue /\ OnlyPump
  \/ IocpForward /\ OnlyPump
  \/ IocpAbandoned /\ OnlyPump

SpecOutput == Init /\ [][NextOutput]_vars

\* the control channel and teardown of a proxy whose child writes nothing
NextCtrl ==
  \/ CtrlConnect /\ OnlyPump
  \/ \E t \in CtrlMessages : CtrlSend(t) /\ OnlyPump
  \/ CtrlHangup /\ OnlyPump
  \/ CleanupPost /\ OnlyPump
  \/ CleanupCloseIocp /\ OnlyPump
  \/ CleanupCloseCtrl /\ OnlyPump
  \/ CleanupCloseHpc /\ OnlyPump
  \/ IocpDequeue /\ OnlyPump
  \/ \E t \in BufTails : IocpCtrlRead(t) /\ OnlyPump
  \/ IocpCtrlApply /\ OnlyPump
  \/ IocpAbandoned /\ OnlyPump

SpecCtrl == Init /\ [][NextCtrl]_vars

\* the loop of stdio_run
NextInput ==
  \/ \E n \in 1..StdBufCap, acc \in AccPatterns : StdinChunk(n, acc) /\ OnlyInput
  \/ \E acc \in AccPatterns : TimerFire(acc) /\ OnlyInput
  \/ StdinFails /\ OnlyInput

SpecInput == Init /\ [][NextInput]_vars

\* the calls a user of an arena makes
NextArena ==
  \/ \E v \in {"module", "proxy"}, z \in DefaultBlockSizes, ok \in CreateOutcomes :
        ArenaCreate(v, z, ok) /\ OnlyArena
  \/ \E z \in ArenaSizes, ok \in BOOLEAN : ArenaAlloc(z, ok) /\ OnlyArena
  \/ \E n \in {0, 3, SizeMod \div 2}, e \in {2, 8}, ok \in BOOLEAN :
        ArenaCalloc(n, e, ok) /\ OnlyArena
  \/ \E n \in {0 - 1, 0, 7, 8}, ok \in BOOLEAN : ArenaStrdup(n, ok) /\ OnlyArena
  \/ \E z \in ArenaSizes, ok \in BOOLEAN : ArenaRealloc(z, ok) /\ OnlyArena
  \/ ArenaReset /\ OnlyArena
  \/ ArenaDestroy /\ OnlyArena

SpecArena == Init /\ [][NextArena]_vars

\* one thread calls ring_buffer_write, another runs the flush loop
NextRing ==
  \/ \E n \in 1..StdBufCap : ProducerLoad(n) /\ OnlyRing
  \/ ProducerCopy /\ OnlyRing
  \/ ProducerStore /\ OnlyRing
  \/ ConsumerLoad /\ OnlyRing
  \/ \E k \in 1..(RingCap - 1) : ConsumerWrite(k) /\ OnlyRing
  \/ ConsumerStore /\ OnlyRing

SpecRing == Init /\ [][NextRing]_vars

(***************************************************************************)
(*                  Properties of the standalone proxy                     *)
(***************************************************************************)
\* the resources of the proxy that are handles closed with CloseHandle or
\* ClosePseudoConsole
ProxyHandles == PResources \ {"arena", "attr_list"}

\* C2: whatever step of the setup fails, the error path of conpty_init
\* followed by conpty_cleanup closes each handle at most once and closes no
\* handle that was not acquired.
C2_CleanupClosesAcquiredOnce ==
  \A r \in ProxyHandles : pres[r].closes <= pres[r].opens

\* C6: the buffers the pump forwards to the consumer alternate strictly
\* 0,1,0,1,... whatever the lengths of the completed reads, and the bytes
\* written to the consumer are the bytes read, in order, with no gap and no
\* duplicate.
C6_ForwardedBuffersAlternate ==
  /\ \A i \in 1..Len(forwarded) : forwarded[i] = (i - 1) % 2
  /\ Len(std_out) <= SumLens(readLens)
  /\ std_out = Bytes(1, Len(std_out))

\* C8: whatever the chunks read from stdin and whatever the input endpoint
\* accepts of each write, every input byte is written to the endpoint once
\* and in order: while stdio_run runs, the bytes written followed by the
\* bytes the ring holds are the bytes supplied.
C8_EveryInputByteForwarded ==
  stdio_pc = "running" =>
    io_write_out \o RingContents(write_ring, write_ring_storage) = Bytes(1, supplied)

\* the latest flush started with a readable region that passes the end of
\* the storage
FlushWrapped ==
  lastFlush.write_pos < lastFlush.read_pos /\ lastFlush.write_pos > 0

\* every WriteFile of the latest flush accepted all it was offered
FlushAcceptedInFull ==
  /\ lastFlush.ret = 0
  /\ \A i \in 1..Len(lastFlush.segs) :
       lastFlush.segs[i].writted = lastFlush.segs[i].offered

\* C9: as long as every byte handed to ring_buffer_write was stored (the
\* bytes written between flushes do not exceed capacity - 1), the bytes the
\* flushes emitted followed by the bytes the ring holds are the bytes
\* written, in order, with no gap and no duplicate; a flush whose writes
\* all accept at least one byte leaves the ring empty; a flush of a region
\* that wraps, whose writes are accepted in full, makes exactly two writes:
\* the run up to the end of the storage, then the run from its start.
C9_RingFifoAndWrapFlush ==
  /\ lost = 0 =>
       io_write_out \o RingContents(write_ring, write_ring_storage) = Bytes(1, supplied)
  /\ (lastFlush.ret = 0 /\ \A i \in 1..Len(lastFlush.segs) : lastFlush.segs[i].writted > 0)
       => lastFlush.emptied
  /\ (FlushWrapped /\ FlushAcceptedInFull) =>
       lastFlush.segs =
         <<[pos |-> lastFlush.read_pos, offered |-> RingCap - lastFlush.read_pos,
            writted |-> RingCap - lastFlush.read_pos],
           [pos |-> 0, offered |-> lastFlush.write_pos,
            writted |-> lastFlush.write_pos]>>

\* a flush of a wrapped region was accepted in full, in two writes, and
\* emptied the ring with no byte lost so far
C9_Witness ==
  /\ FlushWrapped
  /\ FlushAcceptedInFull
  /\ Len(lastFlush.segs) = 2
  /\ lastFlush.emptied
  /\ lost = 0
  /\ io_write_out = Bytes(1, supplied)

(***************************************************************************)
(*   The control channel of the proxy                                      *)
(***************************************************************************)
\* C11: a resize reaches the pseudo-console only while the session is
\* Running: in every accept cycle that called g_resize_pseudo_console the
\* pseudo-console handle was still open, not yet closed by conpty_cleanup
C11_ResizeOnlyWhileRunning == ctrl.last.resized => ctrl.last.live

\* a message that is empty, is no size, or has a non-positive part
BadMessage(msg) ==
  \/ msg = <<>>
  \/ sscanf_s(msg)[1] <= 0
  \/ sscanf_s(msg)[2] <= 0

\* C12: an accept cycle whose message is empty, unparsable or non-positive
\* leaves the stored size as it was, calls no resize, leaves the thread
\* running and re-arms the control pipe
C12_BadMessageIgnored ==
  (ctrl.last # NoAccept /\ BadMessage(ctrl.last.msg)) =>
     /\ ~ctrl.last.resized
     /\ <<ctrl.width, ctrl.height>> = ctrl.last.before
     /\ iocp_open => iocp_thr.pc # "exited"
     /\ ctrl.pipe_open => ctrl.last.rearmed

\* a completed read of the child's output is not yet written to std_out
DataPending == Len(std_out) < SumLens(readLens)

\* C13: whatever the control channel does, the bytes of every completed
\* read are eventually written to std_out while the session runs (until
\* teardown has begun or the thread has left its loop)
C13_ReadsForwardedDespiteControl ==
  DataPending ~> (~DataPending \/ ctrl.posted \/ iocp_thr.pc = "exited")

\* C14 as the specification states it: a message that arrived whole and
\* alone in buf caused a resize only if its width and its height both
\* differ from the stored ones
C14_ResizeOnlyIfBothDiffer ==
  (ctrl.last.resized /\ ctrl.last.text = ctrl.last.msg) =>
     /\ sscanf_s(ctrl.last.msg)[1] # ctrl.last.before[1]
     /\ sscanf_s(ctrl.last.msg)[2] # ctrl.last.before[2]

\* C14 amended: an accept cycle calls g_resize_pseudo_console exactly when
\* it read bytes, the size sscanf_s takes from buf is positive in both
\* parts, and that size differs from the stored one in width or in height
C14_ResizeIffSizeDiffers ==
  ctrl.last.resized <=>
     /\ ctrl.last.readed > 0
     /\ sscanf_s(ctrl.last.text)[1] > 0
     /\ sscanf_s(ctrl.last.text)[2] > 0
     /\ sscanf_s(ctrl.last.text) # ctrl.last.before

\* a resize for a message whose width differs and whose height does not
C14_Witness ==
  /\ ctrl.last.resized
  /\ ctrl.last.text = ctrl.last.msg
  /\ sscanf_s(ctrl.last.msg)[1] # ctrl.last.before[1]
  /\ sscanf_s(ctrl.last.msg)[2] = ctrl.last.before[2]
  /\ <<ctrl.width, ctrl.height>> = sscanf_s(ctrl.last.msg)

(***************************************************************************)
(*   Exit codes, the child and teardown                                    *)
(***************************************************************************)
\* the steps of the setup of conpty_new
SetupSteps ==
  {"argc", "arena", "dup_id", "ctrl_pipe", "api_init", "main_iocp", "size",
   "in_pipe", "out_pipe", "hpc", "open_read", "open_write", "malloc", "init_attr",
   "update_attr", "create_proc", "io_read_iocp", "ctrl_read_iocp", "thread",
   "flush_timer"}

\* the step each code of the enum is named after
StepOfCode(code) ==
  CASE code = ERROR_INVALID_ARGC -> "argc"
    [] code = ERROR_ID_DUP -> "dup_id"
    [] code = ERROR_CREATE_CTRL_PIPE_FAILED -> "ctrl_pipe"
    [] code = ERROR_CONPTY_API_INIT_FAILED -> "api_init"
    [] code = ERROR_INVALID_SIZE -> "size"
    [] code = ERROR_CREATE_IN_PIPE_FAILED -> "in_pipe"
    [] code = ERROR_CREATE_OUT_PIPE_FAILED -> "out_pipe"
    [] code = ERROR_CREATE_PSEUDO_CONSOLE_FAILED -> "hpc"
    [] code = ERROR_OPEN_IN_PIPE_FAILED -> "open_read"
    [] code = ERROR_OPEN_OUT_PIPE_FAILED -> "open_write"
    [] code = ERROR_MALLOC_PROC_ATTR_FAILED -> "malloc"
    [] code = ERROR_INIT_PROC_ATTR_FAILED -> "init_attr"
    [] code = ERROR_UPDATE_PROC_ATTR_FAILED -> "update_attr"
    [] code = ERROR_CREATE_PROC_FAILED -> "create_proc"
    [] code = ERROR_CREATE_MAIN_IOCP_FAILED -> "main_iocp"
    [] code = ERROR_CREATE_IO_READ_IOCP_FAILED -> "io_read_iocp"
    [] code = ERROR_CREATE_CTRL_READ_IOCP_FAILED -> "ctrl_read_iocp"
    [] OTHER -> "none"

\* C15: when a step of the setup fails, conpty_new returns a positive code
\* and that code is the code of this step and of no other
C15_ExitCodeIdentifiesStep ==
  pfail \in SetupSteps => (pret > 0 /\ StepOfCode(pret) = pfail)

\* C16: a session that was constructed and whose stdin loop ended because
\* the consumer closed its input returns 0
C16_GracefulShutdownReturnsZero ==
  (ppc = "returned" /\ pfail = "stdin_closed") => pret = 0

\* C17: the child is terminated by TerminateProcess only when a kill was
\* requested
C17_ChildTerminatedOnlyByKill == child = "killed" => ghost.kills >= 1

\* C18: once conpty_cleanup has posted its key-0 packet and the thread is
\* free to take it (no control client holds it), the thread leaves its
\* loop, without the port being closed
C18_StopPacketEndsPumpLoop ==
  (ctrl.posted /\ iocp_open /\ ctrl.client = "none")
     ~> (iocp_thr.pc = "exited" \/ ~iocp_open \/ ctrl.client # "none")

\* nothing the proxy acquired is open
AllReleased == \A r \in PResources : ~pres[r].open

C20_UsedWithinSizeAndAligned ==
  /\ \A i \in 1..Len(allocator.blocks) :
        /\ 0 <= allocator.blocks[i].used
        /\ allocator.blocks[i].used <= allocator.blocks[i].size
  /\ aret.ptr # NullPtr => aret.ptr.off % 8 = 0

\* a call returned a pointer past the start of a block that growth added
C20_Witness ==
  /\ Len(allocator.blocks) >= 2
  /\ aret.ptr # NullPtr
  /\ aret.ptr.blk = Len(allocator.blocks)
  /\ aret.ptr.off > 0

\* block number n of the chain, numbered from the oldest
Block(a, n) == a.blocks[Len(a.blocks) + 1 - n]

\* the bytes buffer + off .. buffer + off + size - 1 lie in the block's buffer
InsideBlock(r) ==
  /\ r.blk \in 1..Len(allocator.blocks)
  /\ r.off + r.size <= Block(allocator, r.blk).size

\* two regions have a byte in common
Overlap(r, s) ==
  /\ r.blk = s.blk
  /\ r.size > 0 /\ s.size > 0
  /\ r.off < s.off + s.size
  /\ s.off < r.off + r.size

\* C21: the regions that successful allocations returned since the allocator
\* was made or last reset each lie wholly inside one block of the chain, and
\* no two of them have a byte in common
C21_RegionsDisjointInsideBlocks ==
  \A r \in ahist.live :
     /\ InsideBlock(r)
     /\ \A q \in ahist.live \ {r} : ~Overlap(r, q)

\* the size the claim gives the i-th block made since the allocator was made
\* or reset (the block of arena_create being the first), for a given cap
NominalSize(i, cap) == Min((2 ^ (i - 1)) * allocator.default_block_size, cap)

\* C22: for some cap, every block src/arena.c made since the allocator was
\* made or reset has the size min(2^k * initial size, cap), k being the
\* number of blocks made before it, or exactly the rounded size of the request
\* that forced it when that request is larger; so a larger request leaves the
\* sizes of the later blocks as they would have been
C22_GrowthDoublesFromInitialSize ==
  allocator.variant = "module" =>
    \E cap \in 1..SizeMod :
       \A i \in 1..Len(ahist.grown) :
          ahist.grown[i].size =
            IF ahist.grown[i].want > NominalSize(i, cap)
              THEN ahist.grown[i].want
              ELSE NominalSize(i, cap)

\* C23: a call of arena_reset leaves the chain with the same blocks in the
\* same order, each of the size it had and with used = 0, asks the system for
\* no memory and gives none back, and (src/arena.c) sets next_block_size to
\* default_block_size; the first allocation after it that makes no new block
\* returns the start of the current block's buffer
C23_ResetRewindsEveryBlock ==
  [][/\ (aret'.calls # aret.calls /\ aret'.op = "reset") =>
          /\ Len(allocator'.blocks) = Len(allocator.blocks)
          /\ \A i \in 1..Len(allocator.blocks) :
                /\ allocator'.blocks[i].size = allocator.blocks[i].size
                /\ allocator'.blocks[i].used = 0
          /\ allocator'.variant = allocator.variant
          /\ allocator'.default_block_size = allocator.default_block_size
          /\ allocator.variant = "module" =>
                allocator'.next_block_size = allocator.default_block_size
          /\ vm' = vm
     /\ ( /\ aret.op = "reset"
          /\ aret'.calls # aret.calls
          /\ aret'.ptr # NullPtr
          /\ Len(allocator'.blocks) = Len(allocator.blocks) ) =>
          /\ aret'.ptr.blk = Len(allocator.blocks)
          /\ aret'.ptr.off = 0
    ]_vars

\* a chain of two blocks or more was reset and the allocation after the reset
\* was served by the current block: no block was made since, and one region
\* is out
C23_Witness ==
  /\ Len(allocator.blocks) >= 2
  /\ ahist.grown = <<>>
  /\ aret.ptr # NullPtr
  /\ aret.ptr.size > 0
  /\ ahist.live = {aret.ptr}

\* C24: arena_alloc, and arena_calloc and arena_realloc which end in it,
\* return NULL only when the system refused the memory of a new block; and a
\* call that was refused leaves the allocator as it was: the current block,
\* every block's used, the chain and next_block_size
C24_AllocFailsOnlyWhenRefusedMemory ==
  [][aret'.calls # aret.calls =>
       /\ ( /\ aret'.op \in {"alloc", "calloc", "realloc"}
            /\ aret'.ptr = NullPtr ) => ahist'.oom
       /\ ( /\ aret'.op \in {"alloc", "calloc", "realloc", "strdup"}
            /\ ahist'.oom ) =>
            /\ aret'.ptr = NullPtr
            /\ allocator' = allocator
            /\ vm' = vm
    ]_vars

\* arena_alloc was refused a second block while regions of the first were out
C24_Witness ==
  /\ aret.op = "alloc"
  /\ aret.ptr = NullPtr
  /\ ahist.oom
  /\ allocator.variant = "module"
  /\ Len(allocator.blocks) = 1
  /\ Head(allocator.blocks).used > 0
  /\ ahist.live # {}

\* the regions given back so far
Freed == {vm.freed[i] : i \in 1..Len(vm.freed)}

\* C25: no region is given back twice; once arena_destroy returned, the
\* header and every block the allocator was ever given are given back; and
\* an allocator in use has exactly the blocks it was given, none of them a
\* region that was given back, whatever arena was destroyed before it
C25_DestroyReleasesEveryBlockOnce ==
  /\ \A i, j \in 1..Len(vm.freed) : i # j => vm.freed[i] # vm.freed[j]
  /\ (allocator.variant = "none" /\ vm.gen > 0) =>
        \A b \in 0..vm.made : Region(vm.gen, b) \in Freed
  /\ allocator.variant # "none" =>
        /\ Len(allocator.blocks) = vm.made
        /\ \A b \in 0..vm.made : Region(vm.gen, b) \notin Freed

\* a second arena is in use after a first of two blocks or more was destroyed
C25_Witness ==
  /\ vm.gen = 2
  /\ allocator.variant = "module"
  /\ Len(allocator.blocks) >= 1
  /\ Len(vm.freed) >= 3

(***************************************************************************)
(*   The life of a proxy session                                           *)
(***************************************************************************)
\* the place of a position of conpty_new in the order of its statements
StateRank(pc) ==
  CASE pc = "start" -> 0
    [] pc = "n_dup" -> 1
    [] pc = "n_api" -> 2
    [] pc = "n_init" -> 3
    [] pc = "n_spawn" -> 4
    [] pc = "n_assoc" -> 5
    [] pc = "n_thread" -> 6
    [] pc = "n_run" -> 7
    [] pc = "running" -> 8
    [] pc = "cleanup" -> 9
    [] OTHER -> 10

\* C26: conpty_new only moves forward through its steps (start, control
\* pipe, completion port, pipes / pseudoconsole / endpoints, child, thread,
\* running, cleanup, returned): no position is entered again, no block of the
\* cleanup runs twice, and once a step failed the failure recorded stays and
\* nothing is acquired any more
C26_StepsOnlyForward ==
  [][/\ ppc' # ppc => StateRank(ppc') > StateRank(ppc)
     /\ ppc' = "cleanup" => pclean' >= pclean
     /\ pfail # "none" =>
          /\ pfail' = pfail
          /\ \A r \in PResources : pres'[r].open => pres[r].open
    ]_vars

\* a session went through every step, ran, was torn down and returned
C26_Witness ==
  /\ ppc = "returned"
  /\ pfail = "stdin_closed"
  /\ pres["process"].opens = 1
  /\ pres["flush_timer"].opens = 1

\* the resources in the order conpty_new, conpty_init, conpty_spawn and
\* stdio_run acquire them
AcquireOrder ==
  <<"arena", "probe", "ctrl_pipe", "iocp", "in_read", "out_write", "hpc",
    "io_read", "io_write", "attr_list", "process", "hThread", "iocp_thread",
    "flush_event", "flush_timer">>

AcquirePos(r) == CHOOSE i \in 1..Len(AcquireOrder) : AcquireOrder[i] = r

\* the resources conpty_cleanup is there to release
HeldResources == {ResourceOf(CleanupOrder[i]) : i \in 1..Len(CleanupOrder)}

IsHeld(r) == r \in HeldResources

\* the releases of the resources a session holds, in the order they were made
TeardownLog == SelectSeq(plog, IsHeld)

\* C27: when a step of the construction failed and conpty_new has returned,
\* every resource acquired up to that step was released once and nothing
\* else was released, and the resources the session held were released in
\* the reverse of the order in which they were acquired
C27_TeardownReversesAcquisition ==
  (ppc = "returned" /\ pfail \notin StdioExits \cup {"none"}) =>
     /\ \A r \in PResources : pres[r].closes = pres[r].opens
     /\ \A i, j \in 1..Len(TeardownLog) :
           i < j => AcquirePos(TeardownLog[i]) > AcquirePos(TeardownLog[j])

\* the place of the first e in the log of the run
LogPos(e) == CHOOSE i \in 1..Len(plog) : plog[i] = e /\ \A j \in 1..(i - 1) : plog[j] # e

Logged(e) == \E i \in 1..Len(plog) : plog[i] = e

\* C28: in the teardown of a session that ran with its thread, the read in
\* flight is cancelled first, then the thread is told to exit, then it is
\* waited for; the pseudoconsole, the two endpoints and the child's handle
\* are released after that wait; the arena is destroyed last of all, after
\* the attribute list that lives in it was deleted
C28_TerminatingOrder ==
  (ppc = "returned" /\ pfail \in StdioExits /\ pres["iocp_thread"].opens = 1) =>
     /\ \A e \in {"cancel_read", "post_exit", "wait_thread", "hpc", "io_read",
                   "io_write", "process", "attr_list", "arena"} : Logged(e)
     /\ LogPos("cancel_read") < LogPos("post_exit")
     /\ LogPos("post_exit") < LogPos("wait_thread")
     /\ \A r \in {"hpc", "io_read", "io_write", "process"} :
           LogPos("wait_thread") < LogPos(r)
     /\ LogPos("attr_list") < LogPos("arena")
     /\ plog[Len(plog)] = "arena"

(***************************************************************************)
(*   The two buffers of the output path                                    *)
(***************************************************************************)
\* C29: while the thread forwards the contents of a buffer, the read in
\* flight, if there is one, is into the other buffer: no buffer is at once
\* the target of a read and the source of a forward
C29_ReadNeverIntoForwardedBuffer ==
  iocp_thr.pc = "forward" => io_armed # iocp_thr.current_buf

\* buffer 1 is being forwarded while a read into buffer 0 is in flight
C29_Witness ==
  /\ iocp_thr.pc = "forward"
  /\ iocp_thr.current_buf = 1
  /\ io_armed = 0

\* the proxy's thread, holding a buffer it has not yet written to stdout,
\* has already toggled io_buf_active and issued the next read, which is in
\* flight into the other buffer or has ended with its packet queued
ProxyNextReadIssuedBeforeForward ==
  iocp_thr.pc = "forward" =>
     /\ io_buf_active = 1 - iocp_thr.current_buf
     /\ \/ io_armed = io_buf_active
        \/ \E i \in 1..Len(iocpq) : iocpq[i].key = COMPLETION_KEY_IO_READ

\* conpty_output_thread holds a buffer that ReadFile filled and that it has
\* not yet copied to pending_output
PumpForwarding == pump.pc = "append"

\* conpty_output_thread has called ReadFile for the next bytes
PumpReadIssued == pump.pc = "reading"

\* C30: whenever the pump holds a buffer that a read just filled and that it
\* has not yet forwarded, it has already issued the next read, so that a
\* forward that stalls holds no read back
C30_NextReadIssuedBeforeForward == PumpForwarding => PumpReadIssued

\* C31: after any sequence of ring_buffer_write and ring_buffer_consume
\* calls that consume no more than is readable, both cursors lie in
\* [0, capacity), at most capacity - 1 bytes are buffered, the readable
\* and the writable counts add up to capacity - 1, and the two cursors
\* are equal exactly when the ring is empty.
C31_RingCursorsInRange ==
  /\ write_ring.read_pos \in 0 .. RingCap - 1
  /\ write_ring.write_pos \in 0 .. RingCap - 1
  /\ ring_buffer_available_read(write_ring) \in 0 .. RingCap - 1
  /\ ring_buffer_available_read(write_ring) + ring_buffer_available_write(write_ring)
       = RingCap - 1
  /\ (write_ring.read_pos = write_ring.write_pos)
       <=> (ring_buffer_available_read(write_ring) = 0)
  /\ Len(RingContents(write_ring, write_ring_storage))
       = ring_buffer_available_read(write_ring)

\* the ring is full and its content wraps past the end of the storage
C31_Witness ==
  /\ ring_buffer_available_read(write_ring) = RingCap - 1
  /\ write_ring.write_pos < write_ring.read_pos
  /\ lastFlush.segs # <<>>

\* the cursor a flush record leaves after its first k writes
FlushCursor(fl, k) ==
  IF k = 0 THEN fl.read_pos ELSE (fl.segs[k].pos + fl.segs[k].writted) % RingCap

\* every write of the flush was offered the run at the read cursor, the
\* cursor moved by what the write accepted and by nothing else, and an
\* error is returned only by a write that failed, after which the cursors
\* are where the writes before it left them
FlushAdvancesByAccepted(fl) ==
  /\ \A k \in 1 .. Len(fl.segs) :
       /\ fl.segs[k].pos = FlushCursor(fl, k - 1)
       /\ fl.segs[k].writted \in 0 .. fl.segs[k].offered
       /\ fl.segs[k].writted = 0 => (k = Len(fl.segs) /\ fl.ret = 0)
  /\ fl.end.read_pos = FlushCursor(fl, Len(fl.segs))
  /\ fl.end.write_pos = fl.write_pos
  /\ fl.ret \in {0, 0 - 1}
  /\ fl.ret = 0 =>
       \/ ring_buffer_available_read(fl.end) = 0
       \/ fl.segs # <<>> /\ fl.segs[Len(fl.segs)].writted = 0

\* C33: when a flush write accepts n of the m contiguous bytes offered, the
\* read cursor advances by exactly n modulo the capacity and the other
\* m - n bytes stay queued, in order, at the head of the ring; a short
\* write is not reported as an error, and a failing write leaves both
\* cursors unchanged.
C33_ShortWriteKeepsRemainder ==
  [][ /\ FlushAdvancesByAccepted(lastFlush')
      /\ supplied' = supplied =>
           LET before == RingContents(write_ring, write_ring_storage)
               n == Len(io_write_out') - Len(io_write_out)
           IN  /\ n \in 0 .. Len(before)
               /\ io_write_out' = io_write_out \o SubSeq(before, 1, n)
               /\ RingContents(write_ring', write_ring_storage')
                    = SubSeq(before, n + 1, Len(before))
               /\ write_ring'.read_pos = (write_ring.read_pos + n) % RingCap
               /\ write_ring'.write_pos = write_ring.write_pos ]_vars

\* a timer flush whose write took one byte of a longer run and whose next
\* write took none: the flush returned 0 and the rest is still queued
C33_Witness ==
  /\ wake.src = "timer"
  /\ wake.flushed
  /\ Len(lastFlush.segs) = 2
  /\ lastFlush.segs[1].writted = 1
  /\ lastFlush.segs[1].offered > 1
  /\ lastFlush.segs[2].writted = 0
  /\ lastFlush.ret = 0
  /\ stdio_pc = "running"
  /\ ring_buffer_available_read(write_ring) > 0

\* C34: before the main loop waits again, a flush is attempted whenever
\* the ring holds COALESCE_THRESHOLD bytes or more after a chunk was
\* appended, and whenever the timer fires with a non-empty ring; a timer
\* that fires with an empty ring issues no write.
C34_FlushAtThresholdAndTick ==
  [][ /\ (wake'.src = "stdin" /\ wake'.held >= COALESCE_THRESHOLD) => wake'.flushed
      /\ (wake'.src = "timer" /\ wake'.held > 0) => wake'.flushed
      /\ (wake' # wake /\ wake'.flushed /\ wake'.held > 0) =>
           /\ lastFlush'.end = write_ring'
           /\ lastFlush'.segs # <<>> \/ lastFlush'.ret # 0
           /\ stdio_pc' = (IF lastFlush'.ret = 0 THEN "running" ELSE "returned")
      /\ (wake'.src = "timer" /\ wake'.held = 0) =>
           /\ ~wake'.flushed
           /\ io_write_out' = io_write_out
           /\ lastFlush' = lastFlush
           /\ write_ring' = write_ring ]_vars

\* a chunk took the ring to the threshold exactly, below its capacity, and
\* the handler flushed it
C34_Witness ==
  /\ wake.src = "stdin"
  /\ wake.held = COALESCE_THRESHOLD
  /\ wake.held < RingCap - 1
  /\ wake.flushed
  /\ lastFlush.segs # <<>>

\* the timer fired on an empty ring after input had been forwarded
TimerOnEmptyRing ==
  /\ wake.src = "timer"
  /\ wake.held = 0
  /\ supplied > 0

\* every write of the flush on record accepted at least one byte
EveryWriteAccepts(fl) ==
  /\ fl.ret = 0
  /\ \A k \in 1 .. Len(fl.segs) : fl.segs[k].writted >= 1

\* C35: provided the endpoint accepts at least one byte per write, every
\* byte accepted into the ring has been written to the endpoint by the end
\* of the handling of the next timer tick: the handler leaves the ring
\* empty and the endpoint has received all it held, in order.
C35_TickDrainsRing ==
  [][ ( /\ wake'.src = "timer"
        /\ supplied' = supplied
        /\ stdio_pc' = "running"
        /\ wake'.flushed => EveryWriteAccepts(lastFlush') )
      => /\ ring_buffer_available_read(write_ring') = 0
         /\ io_write_out'
              = io_write_out \o RingContents(write_ring, write_ring_storage)
         /\ lost = 0 => io_write_out' = Bytes(1, supplied) ]_vars

\* a tick found a wrapped ring, its first write took one byte only, and at
\* its end the ring was empty with every byte supplied at the endpoint
C35_Witness ==
  /\ wake.src = "timer"
  /\ wake.flushed
  /\ wake.held >= 2
  /\ EveryWriteAccepts(lastFlush)
  /\ Len(lastFlush.segs) >= 2
  /\ lastFlush.segs[1].writted < lastFlush.segs[1].offered
  /\ ring_buffer_available_read(write_ring) = 0
  /\ io_write_out = Bytes(1, supplied)

\* C39: after every applied resize the (width, height) the session stores
\* is the size that was passed to the resize call of the pseudo-console,
\* for every positive width and height a control message can carry.
C39_StoredSizeIsSizePassed ==
  ctrl.last.resized => ctrl.last.coord = <<ctrl.width, ctrl.height>>

\* the rounds of a repeated sequence of allocations that are replayed
MaxRounds == 3

\* the allocator after arena_alloc was called with each size of sizes in
\* turn, memory being granted, and the blocks that were reserved for it
RECURSIVE RunSizes(_, _, _)
RunSizes(a, sizes, made) ==
  IF sizes = <<>> THEN [a |-> a, made |-> made]
  ELSE LET r == arena_alloc(a, Head(sizes), TRUE)
       IN  RunSizes(r.a, Tail(sizes), made + (IF r.block = "new" THEN 1 ELSE 0))

\* the allocator after k more rounds of arena_reset followed by sizes
RECURSIVE AfterRounds(_, _, _)
AfterRounds(a, sizes, k) ==
  IF k = 0 THEN a
  ELSE AfterRounds(RunSizes(arena_reset(a), sizes, 0).a, sizes, k - 1)

\* the blocks reserved by the round that follows k rounds
ReservedInRound(a, sizes, k) ==
  RunSizes(arena_reset(AfterRounds(a, sizes, k)), sizes, 0).made

\* C40: arena_reset makes the arena reusable without new reservations:
\* when the sequence of allocation sizes made since the last reset is
\* repeated between successive arena_reset calls, then from some
\* repetition on no further block is reserved.
C40_RepeatedRoundsStopReserving ==
  (allocator.variant # "none" /\ \A i \in 1 .. Len(ahist.asked) : ahist.asked[i] >= 0)
    => \E k \in 0 .. MaxRounds :
         \A j \in k .. MaxRounds : ReservedInRound(allocator, ahist.asked, j) = 0

\* C37: in every interleaving of a kill with the pump thread, the bounded
\* join timing out included, the pump never enters the pending lock or
\* writes the pending region after teardown deleted the lock, and never
\* reads the output endpoint after teardown closed it.
C37_PumpNeverTouchesReleased ==
  /\ "pending_lock" \notin ghost.pumpTouched
  /\ "out_read" \notin ghost.pumpTouched

\* the pump thread appended to the pending region: what fits of the read,
\* inside the critical section of a lock that exists
PendingAppended ==
  /\ pump.pc = "append"
  /\ ires["pending_lock"].open
  /\ state'.pending_output =
       state.pending_output
         \o SubSeq(state.output_buf[pump.cur], 1,
                   Min(pump.n, PendingCap - Len(state.pending_output)))

\* read_pending drained the pending region: the whole content is returned
\* and the length is zero, in the critical section of a lock that exists
PendingDrained ==
  /\ term_conpty = "state"
  /\ ires["pending_lock"].open
  /\ state'.pending_output = <<>>
  /\ delivered' = delivered \o state.pending_output
  /\ lastCall'.op = "read"
  /\ lastCall'.ret = MakeString(Len(state.pending_output))

\* Fvterm_conpty_init set up a new state, with an empty pending region
PendingMade ==
  /\ term_conpty = "NULL"
  /\ state'.pending_output = <<>>

\* C36: pending_output_len never exceeds the capacity of the pending
\* region; the region is read or written only while the pending lock is
\* held; a drain returns the whole pending content and sets the length to
\* zero in one critical section.
C36_PendingUnderLock ==
  [][ /\ Len(state'.pending_output) <= PendingCap
      /\ state'.pending_output # state.pending_output =>
           (PendingAppended \/ PendingDrained \/ PendingMade) ]_vars

\* C36 on the steps that do not come after a kill whose wait timed out
PendingUnderLockWhileOpen ==
  [][ /\ Len(state'.pending_output) <= PendingCap
      /\ (state'.pending_output # state.pending_output
           /\ (ires["pending_lock"].open \/ (term_conpty = "NULL" /\ pump.pc # "append"))) =>
           (PendingAppended \/ PendingDrained \/ PendingMade) ]_vars

\* C38: no wake-up is lost: after every append the pump writes a
\* notification to notify_fd, so in no reachable state is the pending
\* region non-empty and the pump blocked in its next read with no
\* notification written since the latest append.
C38_NoLostWakeup ==
  (pump.pc = "reading" /\ state.pending_output # <<>>) => ghost.notified

\* the pump appended a second read to a pending region Lisp had not
\* drained, notified, and is blocked in its next read
C38_Witness ==
  /\ pump.pc = "reading"
  /\ Len(state.pending_output) >= 2
  /\ outRead >= 2
  /\ delivered = <<>>
  /\ ghost.notified
  /\ term_conpty = "state"

\* the cells that hold bytes not yet consumed
LiveCells(rb) ==
  {(rb.read_pos + i) % RingCap : i \in 0 .. ring_buffer_available_read(rb) - 1}

\* the bytes accepted by a WriteFile whose consume is still to come
Unconsumed == IF consumer.pc = "consume" THEN consumer.writted ELSE 0

\* the consumer has read the bytes written, in order, and those it has
\* consumed followed by those the ring holds are the bytes stored
SpscFifo ==
  /\ spsc_out = Bytes(1, Len(spsc_out))
  /\ Len(spsc_out) <= spsc_made
  /\ SubSeq(spsc_out, 1, Len(spsc_out) - Unconsumed)
       \o RingContents(spsc_ring, spsc_storage) = Bytes(1, spsc_made)

\* C32: the ring buffer is correct without a lock for one producer and one
\* consumer: a write modifies only write_pos and a consume only read_pos,
\* and when the two are interleaved at the granularity of single cursor
\* loads and stores the consumer reads exactly the bytes written, in
\* order, and the producer never writes into a region not yet consumed.
C32_LockFreeOneProducerOneConsumer ==
  [][ /\ SpscFifo'
      /\ producer' # producer => spsc_ring'.read_pos = spsc_ring.read_pos
      /\ consumer' # consumer =>
           (spsc_ring'.write_pos = spsc_ring.write_pos /\ spsc_storage' = spsc_storage)
      /\ \A c \in 0 .. RingCap - 1 :
           spsc_storage'[c] # spsc_storage[c] => c \notin LiveCells(spsc_ring) ]_vars

\* the producer has copied bytes into cells the consumer freed while the
\* consumer, with a run accepted, has not yet moved read_pos; the storage
\* has wrapped
C32_Witness ==
  /\ producer.pc = "store"
  /\ consumer.pc = "consume"
  /\ producer.seen.write_pos + Len(producer.data) > RingCap
  /\ Len(spsc_out) >= 2
  /\ producer.seen.read_pos # spsc_ring.read_pos \/ consumer.seen.write_pos # spsc_ring.write_pos

====
